---- MODULE Spec2Model ----
(***************************************************************************)
(* Voice-command recognition lifecycle and command-resolution pipeline of  *)
(* the video player (src/hooks/use-voice-commands.ts) together with the    *)
(* VoiceButton consumer (src/unnamed/part_000).                            *)
(*                                                                         *)
(* Every handler (an exposed operation, a recognizer callback, a timer     *)
(* callback, the continuation of an await) is one action: JavaScript runs  *)
(* it to completion on the single event loop, and its setState updater is  *)
(* applied to the latest state within the same step.                       *)
(***************************************************************************)
EXTENDS Integers, Sequences, FiniteSets, TLC

VARIABLES
  env,                       \* "webSR" | "webNoSR" | "native": Platform.OS and window.SpeechRecognition
  mounted,                   \* whether the provider that holds the hook is mounted
  language,                  \* the language of useI18n (line 25)
  store,                     \* what AsyncStorage holds under 'customCommands': <<>> (null) or <<a JSON text>>
  closure,                   \* the customCommands that saveCustomCommand captured at the last render
  loading,                   \* <<>>, or <<what the awaited getItem of loadCustomCommands read>>
  writes,                    \* the setItem calls not yet completed, oldest first
  expected,                  \* history: the overrides as the saves, taken one after the other, define them
  isDetecting,               \* useAudioLevel: the isDetecting state as last set
  audioLevel,                \* useAudioLevel: the audioLevel state as last set, in tenths
  animationRef,              \* 0 (null) or the id of a requested animation frame
  mediaStreamRef,            \* 0 (null) or the id of the media stream of the sampler
  audioContextRef,           \* 0 (null) or the id of the AudioContext of the sampler
  detecting,                 \* the isDetecting that startDetection captured at the last render
  mediaWait,                 \* startDetection calls awaiting getUserMedia
  tracks,                    \* the sampler streams whose tracks are not stopped
  contexts,                  \* the sampler AudioContexts not closed
  made,                      \* how many sampler streams getUserMedia has handed out
  state,                     \* the RecordingState held by useState
  persistentRecognitionRef,  \* 0 (null) or the id of a persistent recognizer
  restartTimeoutRef,         \* 0 (null) or the id of a restart timer
  sess,                      \* persistent recognizer id -> its platform status
  timers,                    \* the pending (scheduled, neither fired nor cleared) restart timers
  permPending,               \* togglePersistentMode calls awaiting getUserMedia
  recognitionRef,            \* 0 (null) or the id of a one-shot recognizer
  rec,                       \* one-shot recognizer id -> its platform status
  mediaRecorderRef,          \* 0 (null) or the id of a MediaRecorder
  recorder,                  \* MediaRecorder id -> its status; its stream holds the microphone
  micPending,                \* startRecording calls awaiting getUserMedia
  onstopWait,                \* recorders whose onstop resolves an awaiting stopRecording
  fetchPending,              \* stopRecording calls awaiting the transcription request
  customCommands,            \* the overrides: a sequence of <<actionId, trigger>> in insertion order
  videoControls,             \* the player-control object: uri, player, volume, and whether its calls throw
  text,                      \* the argument of the last processVoiceCommand call
  dispatched,                \* the commandId the last call handed to executeCommand
  calls,                     \* the player-control calls the last call made
  result,                    \* what the last call returned
  muteTrail,                 \* history: a mute dispatch, the unmute after it, and the volume before
  effectDeps,                \* the dependencies the VoiceButton effect last ran with
  consumed,                  \* history: runs of that effect that processed the present lastCommand
  last                       \* history: the handler that produced this state

vars == <<env, mounted, language, store, closure, loading, writes, expected,
         isDetecting, audioLevel, animationRef, mediaStreamRef, audioContextRef, detecting,
         mediaWait, tracks, contexts, made,
         state, persistentRecognitionRef, restartTimeoutRef, sess, timers,
          permPending, recognitionRef, rec, mediaRecorderRef, recorder, micPending,
          onstopWait, fetchPending, customCommands, videoControls, text, dispatched,
          calls, result, muteTrail, effectDeps, consumed, last>>

effectVars == <<effectDeps, consumed>>

(* The persistence of the overrides, lines 32-58 *)
storeVars == <<store, closure, loading, writes, expected>>

(* The audio-level sampler useAudioLevel *)
samplerVars == <<isDetecting, audioLevel, animationRef, mediaStreamRef, audioContextRef,
                 detecting, mediaWait, tracks, contexts, made>>
(* What the session, the resolver and the dispatcher never write *)
auxVars == <<language, storeVars, samplerVars>>

cmdVars == <<customCommands, videoControls, text, dispatched, calls, result, muteTrail,
             effectVars>>

persistentVars == <<persistentRecognitionRef, restartTimeoutRef, sess, timers, permPending>>
oneShotVars == <<recognitionRef, rec, mediaRecorderRef, recorder, micPending, onstopWait,
                 fetchPending>>

----------------------------------------------------------------------------
(* Bounds of the model *)

MaxSessions == 2    \* persistent recognizer objects that are referenced or not yet ended
MaxTimers == 2      \* restart-timer ids in use
MaxPending == 1     \* togglePersistentMode calls awaiting the microphone permission
MaxRuns == 2        \* runs of the voice button's effect counted for one lastCommand

----------------------------------------------------------------------------
(* Values *)

NoValue == "undefined"

ErrMicUnavailable == "Microphone access denied or not available"
ErrPermissionDenied == "Microphone permission denied. Please allow microphone access."
ErrOther == "Speech recognition error: other"
ErrNotSupported == "Speech Recognition not supported in this browser. Please use Chrome, Edge, or Safari."
ErrPermissionRequired == "Microphone permission is required for voice commands"
ErrVoice == "voice.error"

ErrorCodes == {"no-speech", "audio-capture", "not-allowed", "network", "aborted", "other"}

SessionIds == 1..MaxSessions
TimerIds == 1..MaxTimers

InitialState ==
  [isRecording |-> FALSE, isProcessing |-> FALSE, isListening |-> FALSE,
   isPersistentMode |-> FALSE, lastCommand |-> NoValue, error |-> NoValue]

----------------------------------------------------------------------------
(* The controller: the state container and the refs the handlers share.    *)

Ctl ==
  [state |-> state, pref |-> persistentRecognitionRef, tref |-> restartTimeoutRef,
   sess |-> sess, timers |-> timers,
   rref |-> recognitionRef, rec |-> rec, mref |-> mediaRecorderRef, recorder |-> recorder,
   onstopWait |-> onstopWait, fetchPending |-> fetchPending]

Apply(c) ==
  /\ state' = c.state
  /\ persistentRecognitionRef' = c.pref
  /\ restartTimeoutRef' = c.tref
  /\ sess' = c.sess
  /\ timers' = c.timers
  /\ recognitionRef' = c.rref
  /\ rec' = c.rec
  /\ mediaRecorderRef' = c.mref
  /\ recorder' = c.recorder
  /\ onstopWait' = c.onstopWait
  /\ fetchPending' = c.fetchPending

(* SpeechRecognition.stop(): a started recognizer stops listening and may  *)
(* still deliver a result and its end event; the call is ignored on a      *)
(* recognizer that is stopped, failing or ended.                           *)
RecognizerStop(ss, id) ==
  [ss EXCEPT ![id] = CASE ss[id] = "starting" -> "stopStarting"
                       [] ss[id] = "listening" -> "stopListening"
                       [] OTHER -> ss[id]]

(* A recognizer that has ended and is no longer referenced is garbage.     *)
Release(ss, id) ==
  [ss EXCEPT ![id] = IF ss[id] = "ended" THEN "none" ELSE ss[id]]

(* clearTimeout(id) *)
ClearTimeout(ts, id) == {t \in ts : t.id # id}

FreeSession(ss) == CHOOSE i \in SessionIds : ss[i] = "none"
HasFreeSession(ss) == \E i \in SessionIds : ss[i] = "none"

FreeTimer(ts, ref) == CHOOSE i \in TimerIds : i # ref /\ \A t \in ts : t.id # i
HasFreeTimer(ts, ref) == \E i \in TimerIds : i # ref /\ \A t \in ts : t.id # i

----------------------------------------------------------------------------
(* Strings.  A string is a sequence of characters: Len, SubSeq and \o act  *)
(* on it.                                                                  *)

UpperCase == "ABCDEFGHIJKLMNOPQRSTUVWXYZ"
LowerCase == "abcdefghijklmnopqrstuvwxyz"

CharAt(s, i) == SubSeq(s, i, i)

LowerChar(ch) ==
  IF \E i \in 1..Len(UpperCase) : CharAt(UpperCase, i) = ch
  THEN CharAt(LowerCase, CHOOSE i \in 1..Len(UpperCase) : CharAt(UpperCase, i) = ch)
  ELSE ch

(* String.prototype.toLowerCase, on the letters A-Z: every character is    *)
(* mapped, the two halves of the string one after the other                *)
RECURSIVE ToLowerCase(_)
ToLowerCase(s) ==
  IF Len(s) = 0 THEN s
  ELSE IF Len(s) = 1 THEN LowerChar(s)
  ELSE ToLowerCase(SubSeq(s, 1, Len(s) \div 2))
         \o ToLowerCase(SubSeq(s, Len(s) \div 2 + 1, Len(s)))

IsSpace(ch) == ch = " "

(* String.prototype.trim: the white space of both ends is removed *)
RECURSIVE TrimStart(_)
TrimStart(s) ==
  IF Len(s) > 0 /\ IsSpace(CharAt(s, 1)) THEN TrimStart(SubSeq(s, 2, Len(s))) ELSE s

RECURSIVE TrimEnd(_)
TrimEnd(s) ==
  IF Len(s) > 0 /\ IsSpace(CharAt(s, Len(s))) THEN TrimEnd(SubSeq(s, 1, Len(s) - 1)) ELSE s

Trim(s) == TrimEnd(TrimStart(s))

(* text.toLowerCase().trim(): lines 112, 327, 434, 599 *)
Normalize(s) == Trim(ToLowerCase(s))

(* String.prototype.includes *)
Includes(s, t) ==
  \E i \in 1..(Len(s) - Len(t) + 1) : SubSeq(s, i, i + Len(t) - 1) = t

(* What the recognizer hears, before the handlers normalise it *)
RawTranscripts == {" Play "}

----------------------------------------------------------------------------
(* Session Controller: persistent listening *)

(* startPersistentListening without lines 77-80: a pending restart timer   *)
(* is neither cleared nor forgotten                                        *)
startPersistentListening_KeepsTimer(c) ==
  CASE env = "webSR" ->
         LET ss1 == IF c.pref # 0
                    THEN Release(RecognizerStop(c.sess, c.pref), c.pref)
                    ELSE c.sess
             id == FreeSession(ss1)
         IN [c EXCEPT !.sess = [ss1 EXCEPT ![id] = "starting"],
                      !.pref = id]
    [] env = "webNoSR" ->
         [c EXCEPT !.state = [c.state EXCEPT !.error = ErrNotSupported,
                                             !.isPersistentMode = FALSE]]
    [] OTHER ->
         [c EXCEPT !.state = [c.state EXCEPT !.isPersistentMode = TRUE,
                                             !.isListening = TRUE,
                                             !.error = NoValue]]

(* startPersistentListening, lines 61-243.  On the web with a recognizer   *)
(* class: stop and forget the previous recognizer, clear the restart       *)
(* timer, create and start a new recognizer and keep it in the ref.  The   *)
(* state is not touched there: onstart does that.                          *)
startPersistentListening(c) ==
  CASE env = "webSR" ->
         LET ss1 == IF c.pref # 0
                    THEN Release(RecognizerStop(c.sess, c.pref), c.pref)
                    ELSE c.sess
             ts1 == IF c.tref # 0 THEN ClearTimeout(c.timers, c.tref) ELSE c.timers
             id == FreeSession(ss1)
         IN [c EXCEPT !.sess = [ss1 EXCEPT ![id] = "starting"],
                      !.pref = id,
                      !.timers = ts1,
                      !.tref = 0]
    [] env = "webNoSR" ->
         [c EXCEPT !.state = [c.state EXCEPT !.error = ErrNotSupported,
                                             !.isPersistentMode = FALSE]]
    [] OTHER ->
         [c EXCEPT !.state = [c.state EXCEPT !.isPersistentMode = TRUE,
                                             !.isListening = TRUE,
                                             !.error = NoValue]]

(* Whether the model has a recognizer slot left for the start.             *)
CanStart(c) ==
  env = "webSR" =>
    HasFreeSession(IF c.pref # 0
                   THEN Release(RecognizerStop(c.sess, c.pref), c.pref)
                   ELSE c.sess)

(* stopPersistentListening without its clearTimeout *)
stopPersistentListening_KeepsTimer(c) ==
  LET ss1 == IF c.pref # 0
             THEN Release(RecognizerStop(c.sess, c.pref), c.pref)
             ELSE c.sess
  IN [c EXCEPT !.tref = 0,
               !.sess = ss1,
               !.pref = 0,
               !.state = [c.state EXCEPT !.isListening = FALSE,
                                         !.isPersistentMode = FALSE,
                                         !.error = NoValue]]

(* stopPersistentListening without lines 254-263: the recognizer is        *)
(* neither stopped nor forgotten                                           *)
stopPersistentListening_KeepsSession(c) ==
  LET ts1 == IF c.tref # 0 THEN ClearTimeout(c.timers, c.tref) ELSE c.timers
  IN [c EXCEPT !.timers = ts1,
               !.tref = 0,
               !.state = [c.state EXCEPT !.isListening = FALSE,
                                         !.isPersistentMode = FALSE,
                                         !.error = NoValue]]

(* stopPersistentListening, lines 245-274 *)
stopPersistentListening(c) ==
  LET ts1 == IF c.tref # 0 THEN ClearTimeout(c.timers, c.tref) ELSE c.timers
      ss1 == IF c.pref # 0
             THEN Release(RecognizerStop(c.sess, c.pref), c.pref)
             ELSE c.sess
  IN [c EXCEPT !.timers = ts1,
               !.tref = 0,
               !.sess = ss1,
               !.pref = 0,
               !.state = [c.state EXCEPT !.isListening = FALSE,
                                         !.isPersistentMode = FALSE,
                                         !.error = NoValue]]

(* recognition.onstart, lines 98-106 *)
onstart(c) ==
  [c EXCEPT !.state = [c.state EXCEPT !.isListening = TRUE,
                                      !.isPersistentMode = TRUE,
                                      !.error = NoValue]]

(* recognition.onresult that takes every result for a final one and marks  *)
(* the session as no longer listening                                      *)
onresult_ClosesSession(c, transcript, isFinal) ==
  [c EXCEPT !.state = [c.state EXCEPT !.lastCommand = Normalize(transcript),
                                      !.isListening = FALSE,
                                      !.error = NoValue]]

(* recognition.onresult, lines 108-123 *)
onresult(c, transcript, isFinal) ==
  IF isFinal
  THEN [c EXCEPT !.state = [c.state EXCEPT !.lastCommand = Normalize(transcript),
                                           !.error = NoValue]]
  ELSE c

(* setTimeout(..., 3000) of onerror and setTimeout(..., 500) of onend: the *)
(* new timer is pending and restartTimeoutRef holds it.  The 500 ms timer  *)
(* keeps the prev.isPersistentMode its closure captured.                   *)
Schedule(c, kind, captured) ==
  LET id == FreeTimer(c.timers, c.tref)
  IN [c EXCEPT !.timers = c.timers \cup {[id |-> id, kind |-> kind, captured |-> captured]},
               !.tref = id]

(* recognition.onerror where 'no-speech' is not filtered (lines 129-133)   *)
(* and falls to the last branch                                            *)
onerror_NoSpeechSurfaces(c, code) ==
  CASE code = "audio-capture" ->
         [c EXCEPT !.state = [c.state EXCEPT !.error = ErrMicUnavailable,
                                             !.isListening = FALSE,
                                             !.isPersistentMode = FALSE]]
    [] code = "not-allowed" ->
         [c EXCEPT !.state = [c.state EXCEPT !.error = ErrPermissionDenied,
                                             !.isListening = FALSE,
                                             !.isPersistentMode = FALSE]]
    [] code = "network" ->
         Schedule([c EXCEPT !.timers = IF c.tref # 0
                                       THEN ClearTimeout(c.timers, c.tref)
                                       ELSE c.timers],
                  "net", FALSE)
    [] code = "aborted" -> c
    [] OTHER ->
         [c EXCEPT !.state = [c.state EXCEPT !.error = ErrOther,
                                             !.isListening = FALSE]]

(* recognition.onerror whose last branch (lines 159-166) also ends         *)
(* persistent mode                                                         *)
onerror_OtherFatal(c, code) ==
  CASE code = "no-speech" -> c
    [] code = "audio-capture" ->
         [c EXCEPT !.state = [c.state EXCEPT !.error = ErrMicUnavailable,
                                             !.isListening = FALSE,
                                             !.isPersistentMode = FALSE]]
    [] code = "not-allowed" ->
         [c EXCEPT !.state = [c.state EXCEPT !.error = ErrPermissionDenied,
                                             !.isListening = FALSE,
                                             !.isPersistentMode = FALSE]]
    [] code = "network" ->
         Schedule([c EXCEPT !.timers = IF c.tref # 0
                                       THEN ClearTimeout(c.timers, c.tref)
                                       ELSE c.timers],
                  "net", FALSE)
    [] code = "aborted" -> c
    [] OTHER ->
         [c EXCEPT !.state = [c.state EXCEPT !.error = ErrOther,
                                             !.isListening = FALSE,
                                             !.isPersistentMode = FALSE]]

(* recognition.onerror, lines 125-183 *)
onerror(c, code) ==
  CASE code = "no-speech" -> c
    [] code = "audio-capture" ->
         [c EXCEPT !.state = [c.state EXCEPT !.error = ErrMicUnavailable,
                                             !.isListening = FALSE,
                                             !.isPersistentMode = FALSE]]
    [] code = "not-allowed" ->
         [c EXCEPT !.state = [c.state EXCEPT !.error = ErrPermissionDenied,
                                             !.isListening = FALSE,
                                             !.isPersistentMode = FALSE]]
    [] code = "network" ->
         Schedule([c EXCEPT !.timers = IF c.tref # 0
                                       THEN ClearTimeout(c.timers, c.tref)
                                       ELSE c.timers],
                  "net", FALSE)
    [] code = "aborted" -> c
    [] OTHER ->
         [c EXCEPT !.state = [c.state EXCEPT !.error = ErrOther,
                                             !.isListening = FALSE]]

(* recognition.onend, lines 185-208 *)
onend(c) ==
  LET c1 == [c EXCEPT !.timers = IF c.tref # 0
                                 THEN ClearTimeout(c.timers, c.tref)
                                 ELSE c.timers]
  IN IF c1.state.isPersistentMode /\ c1.pref # 0
     THEN Schedule(c1, "end", c1.state.isPersistentMode)
     ELSE c1

(* Whether the handler schedules a timer, and the model has an id for it.  *)
CanSchedule(c) == HasFreeTimer(IF c.tref # 0 THEN ClearTimeout(c.timers, c.tref) ELSE c.timers, c.tref)

(* The callbacks of the two restart timers: lines 173-181 (it reads the    *)
(* state of the moment it fires) and lines 198-202 (it reads the prev its  *)
(* closure captured when onend ran).                                       *)
WantsRestart(c, t) ==
  IF t.kind = "net" THEN c.state.isPersistentMode ELSE t.captured

(* A timer callback that only expires: neither callback calls             *)
(* startPersistentListening                                                *)
restartTimeout_Noop(c, t) ==
  [c EXCEPT !.timers = c.timers \ {t}]

restartTimeout(c, t) ==
  LET c1 == [c EXCEPT !.timers = c.timers \ {t}]
  IN IF WantsRestart(c1, t) THEN startPersistentListening(c1) ELSE c1

----------------------------------------------------------------------------
(* Actions of the persistent session *)

(* History: which case of stopPersistentListening acted *)
StopCase(c) ==
  IF \E t \in c.timers : t.kind = "end" THEN "stop.backoff"
  ELSE IF c.pref = 0 /\ c.timers = {} THEN "stop.idle"
  ELSE "stop"

(* The errors that end persistent mode, lines 134-151 *)
FatalCodes == {"audio-capture", "not-allowed"}

(* History: "fatal" from a fatal error until the next explicit request of  *)
(* the user; the platform's events and the timers keep it                  *)
Keep == IF last = "fatal" THEN "fatal" ELSE "-"

Label(l) == IF last = "fatal" THEN "fatal" ELSE l

(* togglePersistentMode, lines 276-299: the part up to the await *)
TogglePersistentMode ==
  /\ IF state.isPersistentMode
     THEN /\ Apply(stopPersistentListening(Ctl))
          /\ UNCHANGED permPending
          /\ last' = StopCase(Ctl)
     ELSE IF env = "native"
     THEN /\ Apply(startPersistentListening(Ctl))
          /\ UNCHANGED permPending
          /\ last' = "-"
     ELSE /\ permPending < MaxPending
          /\ permPending' = permPending + 1
          /\ Apply(Ctl)
          /\ last' = "-"
  /\ UNCHANGED <<env, mounted, auxVars, micPending, cmdVars>>

(* getUserMedia resolved: lines 285-286 and 297 *)
PermissionGranted ==
  /\ permPending > 0
  /\ CanStart(Ctl)
  /\ permPending' = permPending - 1
  /\ Apply(startPersistentListening(Ctl))
  /\ last' = "-"
  /\ UNCHANGED <<env, mounted, auxVars, micPending, cmdVars>>

(* getUserMedia rejected, without the return of line 293: the error is    *)
(* set and the start of line 297 follows                                   *)
PermissionDenied_Starts ==
  /\ permPending > 0
  /\ CanStart(Ctl)
  /\ permPending' = permPending - 1
  /\ Apply(startPersistentListening(
             [Ctl EXCEPT !.state = [state EXCEPT !.error = ErrPermissionRequired]]))
  /\ last' = "-"
  /\ UNCHANGED <<env, mounted, auxVars, micPending, cmdVars>>

(* getUserMedia rejected: lines 287-294 *)
PermissionDenied ==
  /\ permPending > 0
  /\ permPending' = permPending - 1
  /\ Apply([Ctl EXCEPT !.state = [state EXCEPT !.error = ErrPermissionRequired]])
  /\ last' = "-"
  /\ UNCHANGED <<env, mounted, auxVars, micPending, cmdVars>>

(* The exposed operations called directly (lines 685-686) *)
StartPersistentListening ==
  /\ CanStart(Ctl)
  /\ Apply(startPersistentListening(Ctl))
  /\ last' = IF timers # {} THEN "start.backoff" ELSE "-"
  /\ UNCHANGED <<env, mounted, auxVars, permPending, micPending, cmdVars>>

StopPersistentListening ==
  /\ Apply(stopPersistentListening(Ctl))
  /\ last' = StopCase(Ctl)
  /\ UNCHANGED <<env, mounted, auxVars, permPending, micPending, cmdVars>>

(* The platform fires the start event of recognizer s *)
OnStart(s) ==
  /\ sess[s] \in {"starting", "stopStarting"}
  /\ Apply(onstart([Ctl EXCEPT !.sess[s] = IF sess[s] = "starting"
                                           THEN "listening" ELSE "stopListening"]))
  /\ last' = Keep
  /\ UNCHANGED <<env, mounted, auxVars, permPending, micPending, cmdVars>>

(* The platform delivers a result of recognizer s: what it heard, final or *)
(* interim                                                                 *)
OnResultOf(s, transcript, isFinal) ==
  /\ sess[s] \in {"listening", "stopListening"}
  /\ Apply(onresult(Ctl, transcript, isFinal))
  /\ last' = IF isFinal THEN Label("capture") ELSE Keep
  /\ UNCHANGED <<env, mounted, auxVars, permPending, micPending, cmdVars>>

OnResult(s) ==
  \E transcript \in RawTranscripts, isFinal \in BOOLEAN : OnResultOf(s, transcript, isFinal)

(* The platform reports the error code of recognizer s; its end event      *)
(* follows                                                                 *)
OnErrorCode(s, code) ==
  /\ sess[s] \in {"starting", "listening", "stopStarting", "stopListening"}
  /\ code = "network" => CanSchedule(Ctl)
  /\ Apply(onerror([Ctl EXCEPT !.sess[s] = "failing"], code))
  /\ last' = IF code \in FatalCodes THEN "fatal" ELSE Keep
  /\ UNCHANGED <<env, mounted, auxVars, permPending, micPending, cmdVars>>

OnError(s) == \E code \in ErrorCodes : OnErrorCode(s, code)

(* The platform ends recognizer s: on its own (a listening recognizer), or *)
(* after a stop or an error                                                *)
OnEnd(s) ==
  /\ sess[s] \in {"listening", "stopStarting", "stopListening", "failing"}
  /\ CanSchedule(Ctl)
  /\ Apply(onend([Ctl EXCEPT !.sess[s] = IF persistentRecognitionRef = s
                                         THEN "ended" ELSE "none"]))
  /\ last' = IF sess[s] = "listening" /\ state.isPersistentMode
             THEN Label("end.natural")
             ELSE Keep
  /\ UNCHANGED <<env, mounted, auxVars, permPending, micPending, cmdVars>>

(* A pending restart timer fires *)
RestartTimeout(t) ==
  /\ t \in timers
  /\ WantsRestart(Ctl, t) => CanStart(Ctl)
  /\ Apply(restartTimeout(Ctl, t))
  /\ last' = IF ~WantsRestart(Ctl, t) THEN Keep
             ELSE IF last = "fatal" THEN "fatal.restart"
             ELSE IF t.kind = "net" THEN "restart.net"
             ELSE "restart"
  /\ UNCHANGED <<env, mounted, auxVars, permPending, micPending, cmdVars>>

PersistentNext ==
  \/ TogglePersistentMode
  \/ PermissionGranted
  \/ PermissionDenied
  \/ StartPersistentListening
  \/ StopPersistentListening
  \/ \E s \in SessionIds : OnStart(s)
  \/ \E s \in SessionIds : OnResult(s)
  \/ \E s \in SessionIds : OnError(s)
  \/ \E s \in SessionIds : OnEnd(s)
  \/ \E t \in timers : RestartTimeout(t)

----------------------------------------------------------------------------
(* Session Controller: one-shot recording *)

RecIds == 1..MaxSessions
RecorderIds == 1..MaxSessions

FreeRec(rs) == CHOOSE i \in RecIds : rs[i] = "none"
HasFreeRec(rs) == \E i \in RecIds : rs[i] = "none"

(* startRecording with the Web Speech API, lines 320-347 and 362: a new    *)
(* one-shot recognizer is started and recognitionRef is overwritten.       *)
startRecognizer(c) ==
  LET rs1 == IF c.rref # 0 THEN Release(c.rec, c.rref) ELSE c.rec
      id == FreeRec(rs1)
  IN [c EXCEPT !.rec = [rs1 EXCEPT ![id] = "listening"],
               !.rref = id,
               !.state = [c.state EXCEPT !.isRecording = TRUE, !.error = NoValue]]

(* startRecording with a MediaRecorder, after getUserMedia gave the        *)
(* stream: lines 310-318, 351-359 and 362.                                 *)
startRecorder(c) ==
  LET id == FreeRec(c.recorder)
  IN [c EXCEPT !.recorder = [c.recorder EXCEPT ![id] = "recording"],
               !.mref = id,
               !.state = [c.state EXCEPT !.isRecording = TRUE, !.error = NoValue]]

(* The catch of startRecording, lines 366-369 *)
startRecordingFailed(c) ==
  [c EXCEPT !.state = [c.state EXCEPT !.error = ErrVoice]]

(* The one-shot recognizer's onresult storing the transcript as heard and  *)
(* leaving isRecording alone                                               *)
oneShotOnresult_Raw(c, transcript) ==
  [c EXCEPT !.state = [c.state EXCEPT !.lastCommand = transcript, !.error = NoValue]]

(* The one-shot recognizer's onresult, lines 326-334 *)
oneShotOnresult(c, transcript) ==
  [c EXCEPT !.state = [c.state EXCEPT !.isRecording = FALSE,
                                      !.lastCommand = Normalize(transcript),
                                      !.error = NoValue]]

(* The one-shot recognizer's onerror, lines 336-343 *)
oneShotOnerror(c) ==
  [c EXCEPT !.state = [c.state EXCEPT !.isRecording = FALSE, !.error = ErrVoice]]

(* MediaRecorder.stop(): a recording recorder stops and fires its stop     *)
(* event later.                                                            *)
RecorderStop(rs, id) ==
  [rs EXCEPT ![id] = IF rs[id] = "recording" THEN "stopping" ELSE rs[id]]

(* stopRecording without the setState of line 402 *)
stopRecording_KeepsProcessing(c) ==
  LET c1 == [c EXCEPT !.state = [c.state EXCEPT !.isRecording = FALSE,
                                                !.isProcessing = TRUE]]
  IN IF c1.rref # 0
     THEN [c1 EXCEPT !.rec = Release(RecognizerStop(c1.rec, c1.rref), c1.rref),
                     !.rref = 0,
                     !.state = [c1.state EXCEPT !.isProcessing = FALSE]]
     ELSE IF c1.mref # 0
     THEN [c1 EXCEPT !.onstopWait = c1.onstopWait \cup {c1.mref},
                     !.recorder = RecorderStop(c1.recorder, c1.mref)]
     ELSE c1

(* stopRecording up to its first await or return, lines 372-404 *)
stopRecording(c) ==
  LET c1 == [c EXCEPT !.state = [c.state EXCEPT !.isRecording = FALSE,
                                                !.isProcessing = TRUE]]
  IN IF c1.rref # 0
     THEN [c1 EXCEPT !.rec = Release(RecognizerStop(c1.rec, c1.rref), c1.rref),
                     !.rref = 0,
                     !.state = [c1.state EXCEPT !.isProcessing = FALSE]]
     ELSE IF c1.mref # 0
     THEN [c1 EXCEPT !.onstopWait = c1.onstopWait \cup {c1.mref},
                     !.recorder = RecorderStop(c1.recorder, c1.mref)]
     ELSE [c1 EXCEPT !.state = [c1.state EXCEPT !.isProcessing = FALSE]]

(* The catch of stopRecording without its reset of isProcessing *)
stopRecordingFailed_KeepsProcessing(c) ==
  [c EXCEPT !.state = [c.state EXCEPT !.error = ErrVoice]]

(* The catch of stopRecording, lines 448-461 *)
stopRecordingFailed(c) ==
  [c EXCEPT !.state = [c.state EXCEPT !.isProcessing = FALSE, !.error = ErrVoice]]

(* stopRecording resumed by the recorder's stop event, lines 393-414: the  *)
(* tracks of the recorder mediaRecorderRef holds now are stopped, the ref  *)
(* is cleared and the recording is posted.  With the ref already null the  *)
(* read of .stream throws into the catch.                                  *)
stopRecordingAfterStop(c) ==
  IF c.mref = 0
  THEN stopRecordingFailed(c)
  ELSE [c EXCEPT !.recorder = [c.recorder EXCEPT ![c.mref] =
                                  IF c.recorder[c.mref] = "inactive" THEN "none" ELSE "trackless"],
                 !.mref = 0,
                 !.fetchPending = c.fetchPending + 1]

(* stopRecording resumed by the transcription response, lines 416-447.     *)
(* transcribed is the normalised result.text, or undefined when the JSON has no   *)
(* text.                                                                   *)
stopRecordingTranscribed(c, transcribed) ==
  [c EXCEPT !.fetchPending = c.fetchPending - 1,
            !.state = [c.state EXCEPT !.isProcessing = FALSE,
                                      !.lastCommand = transcribed,
                                      !.error = NoValue]]

(* The timer of lines 491-493 with a callback that writes nothing *)
clearLastCommand_Noop(c) == c

(* The effect of lines 487-496: the timer that clears lastCommand *)
clearLastCommand(c) ==
  [c EXCEPT !.state = [c.state EXCEPT !.lastCommand = NoValue]]

----------------------------------------------------------------------------
(* Actions of the one-shot session *)

(* startRecording, lines 301-370, up to its await or its end *)
StartRecordingStep ==
  IF env = "webSR"
  THEN /\ HasFreeRec(IF recognitionRef # 0 THEN Release(rec, recognitionRef) ELSE rec)
       /\ Apply(startRecognizer(Ctl))
       /\ UNCHANGED micPending
       /\ last' = "-"
  ELSE /\ micPending < MaxPending
       /\ micPending' = micPending + 1
       /\ Apply(Ctl)
       /\ last' = "-"

StopRecordingStep ==
  /\ Apply(stopRecording(Ctl))
  /\ UNCHANGED micPending
  /\ last' = IF recognitionRef = 0 /\ mediaRecorderRef = 0 THEN "stopRecording.idle" ELSE "-"

StartRecording ==
  /\ StartRecordingStep
  /\ UNCHANGED <<env, mounted, auxVars, permPending, cmdVars>>

StopRecording ==
  /\ StopRecordingStep
  /\ UNCHANGED <<env, mounted, auxVars, permPending, cmdVars>>

(* toggleRecording, lines 464-471 *)
ToggleRecording ==
  /\ IF state.isRecording
     THEN StopRecordingStep
     ELSE StartRecordingStep
  /\ UNCHANGED <<env, mounted, auxVars, permPending, cmdVars>>

(* The voice button, src/unnamed/part_000 lines 265-276: a press calls     *)
(* toggleRecording unless the button is disabled.                          *)
PressVoiceButton ==
  /\ ~(state.isProcessing \/ state.isPersistentMode)
  /\ IF state.isRecording
     THEN StopRecordingStep
     ELSE StartRecordingStep
  /\ UNCHANGED <<env, mounted, auxVars, permPending, cmdVars>>

(* getUserMedia of startRecording resolved *)
MicGranted ==
  /\ micPending > 0
  /\ HasFreeRec(recorder)
  /\ micPending' = micPending - 1
  /\ Apply(startRecorder(Ctl))
  /\ last' = "-"
  /\ UNCHANGED <<env, mounted, auxVars, permPending, cmdVars>>

(* getUserMedia of startRecording rejected *)
MicDenied ==
  /\ micPending > 0
  /\ micPending' = micPending - 1
  /\ Apply(startRecordingFailed(Ctl))
  /\ last' = "-"
  /\ UNCHANGED <<env, mounted, auxVars, permPending, cmdVars>>

(* The one-shot recognizer r delivers its result and ends *)
OneShotResult(r) ==
  /\ rec[r] \in {"listening", "stopListening"}
  /\ \E transcript \in RawTranscripts :
       Apply(oneShotOnresult([Ctl EXCEPT !.rec[r] = IF recognitionRef = r
                                                    THEN "ended" ELSE "none"],
                             transcript))
  /\ last' = "-"
  /\ UNCHANGED <<env, mounted, auxVars, permPending, micPending, cmdVars>>

(* The one-shot recognizer r reports an error and ends *)
OneShotError(r) ==
  /\ rec[r] \in {"listening", "stopListening"}
  /\ Apply(oneShotOnerror([Ctl EXCEPT !.rec[r] = IF recognitionRef = r
                                                 THEN "ended" ELSE "none"]))
  /\ last' = "-"
  /\ UNCHANGED <<env, mounted, auxVars, permPending, micPending, cmdVars>>

(* The stopped one-shot recognizer r ends with nothing heard *)
OneShotEnd(r) ==
  /\ rec[r] = "stopListening"
  /\ Apply([Ctl EXCEPT !.rec[r] = IF recognitionRef = r THEN "ended" ELSE "none"])
  /\ last' = "-"
  /\ UNCHANGED <<env, mounted, auxVars, permPending, micPending, cmdVars>>

(* The stop event of recorder m *)
RecorderOnStop(m) ==
  /\ recorder[m] = "stopping"
  /\ LET c1 == [Ctl EXCEPT !.recorder[m] = "inactive",
                           !.onstopWait = onstopWait \ {m}]
     IN IF m \in onstopWait
        THEN /\ c1.mref # 0 => fetchPending < MaxPending
             /\ Apply(stopRecordingAfterStop(c1))
             /\ last' = "-"
        ELSE /\ Apply(c1)
             /\ last' = "-"
  /\ UNCHANGED <<env, mounted, auxVars, permPending, micPending, cmdVars>>

(* How a transcription request fails: a response whose status is not 2xx   *)
(* (lines 416-420), a body that JSON.parse rejects (lines 425-432).        *)
FetchFailures == {"status", "json"}

(* The transcription request of a stopRecording call fails: the throw      *)
(* lands in the catch of lines 448-461, which returns null.                *)
TranscriptionFailed(cause) ==
  /\ fetchPending > 0
  /\ Apply(stopRecordingFailed([Ctl EXCEPT !.fetchPending = fetchPending - 1]))
  /\ last' = "failed." \o cause
  /\ UNCHANGED <<env, mounted, auxVars, permPending, micPending, cmdVars>>

(* The transcription request of a stopRecording call returns *)
FetchDone ==
  \/ /\ fetchPending > 0
     /\ \/ \E transcript \in RawTranscripts :
             /\ Apply(stopRecordingTranscribed(Ctl, Normalize(transcript)))
             /\ last' = "-"
        \/ /\ Apply(stopRecordingTranscribed(Ctl, NoValue))
           /\ last' = "-"
     /\ UNCHANGED <<env, mounted, auxVars, permPending, micPending, cmdVars>>
  \/ \E cause \in FetchFailures : TranscriptionFailed(cause)

(* The cleanup of the effect of lines 663-674, run when the provider       *)
(* unmounts: stopPersistentListening(), then stop() on the one-shot        *)
(* recognizer and on the recorder the refs hold.  Neither ref is cleared   *)
(* and the tracks of the recorder's stream are not stopped.  The setState  *)
(* of stopPersistentListening is lost on the unmounted component.          *)
unmount(c) ==
  LET c1 == [stopPersistentListening(c) EXCEPT !.state = c.state]
  IN [c1 EXCEPT !.rec = IF c1.rref # 0 THEN RecognizerStop(c1.rec, c1.rref) ELSE c1.rec,
                !.recorder = IF c1.mref # 0
                             THEN RecorderStop(c1.recorder, c1.mref)
                             ELSE c1.recorder]

Unmount ==
  /\ mounted
  /\ mounted' = FALSE
  /\ Apply(unmount(Ctl))
  /\ last' = "unmount"
  /\ UNCHANGED <<env, auxVars, permPending, micPending, cmdVars>>

(* The 3000 ms timer of the lastCommand effect fires; the effect sets it   *)
(* for a lastCommand that is truthy (line 488)                             *)
ClearLastCommand ==
  /\ state.lastCommand \notin {NoValue, ""}
  /\ Apply(clearLastCommand(Ctl))
  /\ last' = Keep
  /\ UNCHANGED <<env, mounted, auxVars, permPending, micPending, cmdVars>>

OneShotNext ==
  \/ StartRecording
  \/ StopRecording
  \/ ToggleRecording
  \/ PressVoiceButton
  \/ MicGranted
  \/ MicDenied
  \/ \E r \in RecIds : OneShotResult(r)
  \/ \E r \in RecIds : OneShotError(r)
  \/ \E r \in RecIds : OneShotEnd(r)
  \/ \E m \in RecorderIds : RecorderOnStop(m)
  \/ FetchDone
  \/ ClearLastCommand

----------------------------------------------------------------------------
(* Command Dispatcher *)

(* Volumes are counted in tenths: setVolume(1) is VolumeMax, the 0.1 of    *)
(* volumeUp and volumeDown is VolumeStep.                                  *)
VolumeMax == 10
VolumeStep == 1

Min(a, b) == IF a < b THEN a ELSE b
Max(a, b) == IF a > b THEN a ELSE b

Call(op, arg) == [op |-> op, arg |-> arg]

(* volumeUp and volumeDown without the clamp of Math.min and Math.max *)
VolumeCall_NoClamp(commandId, vc) ==
  CASE commandId = "volumeUp" -> <<Call("setVolume", vc.volume + VolumeStep)>>
    [] commandId = "volumeDown" -> <<Call("setVolume", vc.volume - VolumeStep)>>
    [] commandId = "volumeMax" -> <<Call("setVolume", VolumeMax)>>
    [] commandId = "mute" -> <<Call("setVolume", 0)>>
    [] commandId = "unmute" ->
         <<Call("setVolume", IF vc.volume > 0 THEN vc.volume ELSE VolumeMax)>>

(* The case of mute without its break: it falls through into unmute *)
VolumeCall_FallThrough(commandId, vc) ==
  CASE commandId = "volumeUp" -> <<Call("setVolume", Min(VolumeMax, vc.volume + VolumeStep))>>
    [] commandId = "volumeDown" -> <<Call("setVolume", Max(0, vc.volume - VolumeStep))>>
    [] commandId = "volumeMax" -> <<Call("setVolume", VolumeMax)>>
    [] commandId = "mute" -> <<Call("setVolume", 0), Call("setVolume", VolumeMax)>>
    [] commandId = "unmute" ->
         <<Call("setVolume", IF vc.volume > 0 THEN vc.volume ELSE VolumeMax)>>

(* The volume cases of the switch, lines 541-556 *)
VolumeCall(commandId, vc) ==
  CASE commandId = "volumeUp" -> <<Call("setVolume", Min(VolumeMax, vc.volume + VolumeStep))>>
    [] commandId = "volumeDown" -> <<Call("setVolume", Max(0, vc.volume - VolumeStep))>>
    [] commandId = "volumeMax" -> <<Call("setVolume", VolumeMax)>>
    [] commandId = "mute" -> <<Call("setVolume", 0)>>
    [] commandId = "unmute" ->
         <<Call("setVolume", IF vc.volume > 0 THEN vc.volume ELSE VolumeMax)>>

VolumeCommands == {"volumeUp", "volumeDown", "volumeMax", "mute", "unmute"}

(* The switch of executeCommand, lines 513-586: the one call of the        *)
(* command, or no call for an unknown commandId.  Seeks are in seconds,    *)
(* speeds in hundredths.                                                   *)
CommandCall(commandId, vc) ==
  CASE commandId = "play" -> <<Call("play", 0)>>
    [] commandId = "pause" -> <<Call("pause", 0)>>
    [] commandId = "stop" -> <<Call("stop", 0)>>
    [] commandId = "forward10" -> <<Call("seek", 10)>>
    [] commandId = "forward20" -> <<Call("seek", 20)>>
    [] commandId = "forward30" -> <<Call("seek", 30)>>
    [] commandId = "backward10" -> <<Call("seek", -10)>>
    [] commandId = "backward20" -> <<Call("seek", -20)>>
    [] commandId = "backward30" -> <<Call("seek", -30)>>
    [] commandId \in VolumeCommands -> VolumeCall(commandId, vc)
    [] commandId = "speed05" -> <<Call("setSpeed", 50)>>
    [] commandId \in {"speed1", "speed10"} -> <<Call("setSpeed", 100)>>
    [] commandId = "speed125" -> <<Call("setSpeed", 125)>>
    [] commandId = "speed15" -> <<Call("setSpeed", 150)>>
    [] commandId = "speed2" -> <<Call("setSpeed", 200)>>
    [] commandId \in {"fullscreen", "exitFullscreen"} -> <<Call("toggleFullscreen", 0)>>
    [] commandId = "bookmark" -> <<Call("addBookmark", 0)>>
    [] commandId = "favorite" -> <<Call("toggleFavorite", 0)>>
    [] OTHER -> <<>>

(* The player after the calls: a setVolume that does not throw sets its    *)
(* volume                                                                  *)
AfterCalls(vc, cs) ==
  LET sets == {k \in 1..Len(cs) : cs[k].op = "setVolume"}
  IN IF sets = {} \/ vc.throws
     THEN vc
     ELSE [vc EXCEPT !.volume = cs[CHOOSE k \in sets : \A j \in sets : j <= k].arg]

(* executeCommand without the check of the player, lines 508-511 *)
executeCommand_NoPlayerCheck(commandId, vc) ==
  IF ~vc.uri
  THEN [ok |-> FALSE, calls |-> <<>>, vc |-> vc, id |-> commandId]
  ELSE LET cs == CommandCall(commandId, vc)
       IN [ok |-> cs # <<>> /\ ~vc.throws,
           calls |-> cs,
           vc |-> AfterCalls(vc, cs),
           id |-> commandId]

(* executeCommand whose catch (lines 590-593) does not return false *)
executeCommand_ThrowIgnored(commandId, vc) ==
  IF ~vc.uri \/ ~vc.player
  THEN [ok |-> FALSE, calls |-> <<>>, vc |-> vc, id |-> commandId]
  ELSE LET cs == CommandCall(commandId, vc)
       IN [ok |-> cs # <<>>,
           calls |-> cs,
           vc |-> AfterCalls(vc, cs),
           id |-> commandId]

(* executeCommand whose default case (lines 583-585) does not return *)
executeCommand_UnknownSucceeds(commandId, vc) ==
  IF ~vc.uri \/ ~vc.player
  THEN [ok |-> FALSE, calls |-> <<>>, vc |-> vc, id |-> commandId]
  ELSE LET cs == CommandCall(commandId, vc)
       IN [ok |-> ~vc.throws,
           calls |-> cs,
           vc |-> AfterCalls(vc, cs),
           id |-> commandId]

(* executeCommand, lines 499-594 *)
executeCommand(commandId, vc) ==
  IF ~vc.uri \/ ~vc.player
  THEN [ok |-> FALSE, calls |-> <<>>, vc |-> vc, id |-> commandId]
  ELSE LET cs == CommandCall(commandId, vc)
       IN [ok |-> cs # <<>> /\ ~vc.throws,
           calls |-> cs,
           vc |-> AfterCalls(vc, cs),
           id |-> commandId]

----------------------------------------------------------------------------
(* Command Resolver *)

(* The built-in phrase table, lines 613-648, in its declared order.  A     *)
(* character outside ASCII is written {uXXXX}, its code point.             *)
commands ==
  <<
     <<"play", <<"play", "{u64ad}{u653e}", "{u518d}{u751f}", "reproducir", "jouer", "spielen", "{u0432}{u043e}{u0441}{u043f}{u0440}{u043e}{u0438}{u0437}{u0432}{u0435}{u0441}{u0442}{u0438}", "{u062a}{u0634}{u063a}{u064a}{u0644}", "{uc7ac}{uc0dd}", "start">>>>,
     <<"pause", <<"pause", "{u66ab}{u505c}", "{u4e00}{u6642}{u505c}{u6b62}", "pausar", "pause", "pausieren", "{u043f}{u0430}{u0443}{u0437}{u0430}", "{u0625}{u064a}{u0642}{u0627}{u0641} {u0645}{u0624}{u0642}{u062a}", "{uc77c}{uc2dc}{uc815}{uc9c0}">>>>,
     <<"stop", <<"stop", "{u505c}{u6b62}", "{u505c}{u6b62}", "parar", "arr{u00ea}ter", "stoppen", "{u043e}{u0441}{u0442}{u0430}{u043d}{u043e}{u0432}{u0438}{u0442}{u044c}", "{u062a}{u0648}{u0642}{u0641}", "{uc815}{uc9c0}">>>>,
     <<"forward10", <<"forward 10", "skip 10", "forward ten", "{u5feb}{u8f49}10{u79d2}", "10{u79d2}{u9032}{u3080}", "adelantar 10", "avancer 10", "{u0432}{u043f}{u0435}{u0440}{u0435}{u0434} 10", "{u062a}{u0642}{u062f}{u064a}{u0645} 10", "10{ucd08} {uc55e}{uc73c}{ub85c}">>>>,
     <<"forward20", <<"forward 20", "skip 20", "forward twenty", "{u5feb}{u8f49}20{u79d2}", "20{u79d2}{u9032}{u3080}", "adelantar 20", "avancer 20", "{u0432}{u043f}{u0435}{u0440}{u0435}{u0434} 20", "{u062a}{u0642}{u062f}{u064a}{u0645} 20", "20{ucd08} {uc55e}{uc73c}{ub85c}">>>>,
     <<"forward30", <<"forward 30", "skip 30", "forward thirty", "{u5feb}{u8f49}30{u79d2}", "30{u79d2}{u9032}{u3080}", "adelantar 30", "avancer 30", "{u0432}{u043f}{u0435}{u0440}{u0435}{u0434} 30", "{u062a}{u0642}{u062f}{u064a}{u0645} 30", "30{ucd08} {uc55e}{uc73c}{ub85c}">>>>,
     <<"backward10", <<"backward 10", "back 10", "rewind 10", "{u5012}{u8f49}10{u79d2}", "10{u79d2}{u623b}{u308b}", "retroceder 10", "reculer 10", "{u043d}{u0430}{u0437}{u0430}{u0434} 10", "{u062a}{u0631}{u0627}{u062c}{u0639} 10", "10{ucd08} {ub4a4}{ub85c}">>>>,
     <<"backward20", <<"backward 20", "back 20", "rewind 20", "{u5012}{u8f49}20{u79d2}", "20{u79d2}{u623b}{u308b}", "retroceder 20", "reculer 20", "{u043d}{u0430}{u0437}{u0430}{u0434} 20", "{u062a}{u0631}{u0627}{u062c}{u0639} 20", "20{ucd08} {ub4a4}{ub85c}">>>>,
     <<"backward30", <<"backward 30", "back 30", "rewind 30", "{u5012}{u8f49}30{u79d2}", "30{u79d2}{u623b}{u308b}", "retroceder 30", "reculer 30", "{u043d}{u0430}{u0437}{u0430}{u0434} 30", "{u062a}{u0631}{u0627}{u062c}{u0639} 30", "30{ucd08} {ub4a4}{ub85c}">>>>,
     <<"volumeUp", <<"volume up", "louder", "increase volume", "{u97f3}{u91cf}{u8abf}{u9ad8}", "{u97f3}{u91cf}{u4e0a}{u3052}{u308b}", "subir volumen", "augmenter volume", "{u0433}{u0440}{u043e}{u043c}{u0447}{u0435}", "{u0631}{u0641}{u0639} {u0627}{u0644}{u0635}{u0648}{u062a}", "{ubcfc}{ub968} {uc62c}{ub9ac}{uae30}">>>>,
     <<"volumeDown", <<"volume down", "quieter", "decrease volume", "{u97f3}{u91cf}{u8abf}{u4f4e}", "{u97f3}{u91cf}{u4e0b}{u3052}{u308b}", "bajar volumen", "baisser volume", "{u0442}{u0438}{u0448}{u0435}", "{u062e}{u0641}{u0636} {u0627}{u0644}{u0635}{u0648}{u062a}", "{ubcfc}{ub968} {ub0b4}{ub9ac}{uae30}">>>>,
     <<"volumeMax", <<"max volume", "volume max", "maximum volume", "{u97f3}{u91cf}{u6700}{u5927}", "{u6700}{u5927}{u97f3}{u91cf}", "volumen m{u00e1}ximo", "volume maximum", "{u043c}{u0430}{u043a}{u0441}{u0438}{u043c}{u0430}{u043b}{u044c}{u043d}{u0430}{u044f} {u0433}{u0440}{u043e}{u043c}{u043a}{u043e}{u0441}{u0442}{u044c}", "{u0623}{u0642}{u0635}{u0649} {u0635}{u0648}{u062a}", "{ucd5c}{ub300} {ubcfc}{ub968}">>>>,
     <<"mute", <<"mute", "{u975c}{u97f3}", "{u30df}{u30e5}{u30fc}{u30c8}", "silenciar", "muet", "stumm", "{u0431}{u0435}{u0437} {u0437}{u0432}{u0443}{u043a}{u0430}", "{u0643}{u062a}{u0645} {u0627}{u0644}{u0635}{u0648}{u062a}", "{uc74c}{uc18c}{uac70}">>>>,
     <<"unmute", <<"unmute", "{u89e3}{u9664}{u975c}{u97f3}", "{u30df}{u30e5}{u30fc}{u30c8}{u89e3}{u9664}", "activar sonido", "activer son", "{u0437}{u0432}{u0443}{u043a} {u0432}{u043a}{u043b}{u044e}{u0447}{u0438}{u0442}{u044c}", "{u0625}{u0644}{u063a}{u0627}{u0621} {u0643}{u062a}{u0645} {u0627}{u0644}{u0635}{u0648}{u062a}", "{uc74c}{uc18c}{uac70} {ud574}{uc81c}">>>>,
     <<"speed05", <<"0.5 speed", "half speed", "slow", "0.5{u500d}{u901f}", "0.5{u500d}{u901f}", "0.5 velocidad", "0.5 vitesse", "0.5 {u0441}{u043a}{u043e}{u0440}{u043e}{u0441}{u0442}{u044c}", "{u0633}{u0631}{u0639}{u0629} 0.5", "0.5{ubc30}{uc18d}">>>>,
     <<"speed1", <<"normal speed", "1x speed", "1 speed", "regular speed", "{u6b63}{u5e38}{u901f}{u5ea6}", "{u901a}{u5e38}{u901f}{u5ea6}", "velocidad normal", "vitesse normale", "{u043e}{u0431}{u044b}{u0447}{u043d}{u0430}{u044f} {u0441}{u043a}{u043e}{u0440}{u043e}{u0441}{u0442}{u044c}", "{u0627}{u0644}{u0633}{u0631}{u0639}{u0629} {u0627}{u0644}{u0639}{u0627}{u062f}{u064a}{u0629}", "{uc815}{uc0c1} {uc18d}{ub3c4}">>>>,
     <<"speed125", <<"1.25 speed", "1.25x speed", "1.25{u500d}{u901f}", "1.25{u500d}{u901f}", "1.25 velocidad", "1.25 vitesse", "1.25 {u0441}{u043a}{u043e}{u0440}{u043e}{u0441}{u0442}{u044c}", "{u0633}{u0631}{u0639}{u0629} 1.25", "1.25{ubc30}{uc18d}">>>>,
     <<"speed15", <<"1.5 speed", "1.5x speed", "fast", "1.5{u500d}{u901f}", "1.5{u500d}{u901f}", "1.5 velocidad", "1.5 vitesse", "1.5 {u0441}{u043a}{u043e}{u0440}{u043e}{u0441}{u0442}{u044c}", "{u0633}{u0631}{u0639}{u0629} 1.5", "1.5{ubc30}{uc18d}">>>>,
     <<"speed2", <<"2 speed", "2x speed", "double speed", "2{u500d}{u901f}", "2{u500d}{u901f}", "2 velocidad", "2 vitesse", "2 {u0441}{u043a}{u043e}{u0440}{u043e}{u0441}{u0442}{u044c}", "{u0633}{u0631}{u0639}{u0629} 2", "2{ubc30}{uc18d}">>>>,
     <<"fullscreen", <<"fullscreen", "full screen", "enter fullscreen", "{u5168}{u87a2}{u5e55}", "{u30d5}{u30eb}{u30b9}{u30af}{u30ea}{u30fc}{u30f3}", "pantalla completa", "plein {u00e9}cran", "{u043f}{u043e}{u043b}{u043d}{u044b}{u0439} {u044d}{u043a}{u0440}{u0430}{u043d}", "{u0645}{u0644}{u0621} {u0627}{u0644}{u0634}{u0627}{u0634}{u0629}", "{uc804}{uccb4}{ud654}{uba74}">>>>,
     <<"exitFullscreen", <<"exit fullscreen", "leave fullscreen", "{u96e2}{u958b}{u5168}{u87a2}{u5e55}", "{u30d5}{u30eb}{u30b9}{u30af}{u30ea}{u30fc}{u30f3}{u7d42}{u4e86}", "salir pantalla completa", "quitter plein {u00e9}cran", "{u0432}{u044b}{u0439}{u0442}{u0438} {u0438}{u0437} {u043f}{u043e}{u043b}{u043d}{u043e}{u0433}{u043e} {u044d}{u043a}{u0440}{u0430}{u043d}{u0430}", "{u0627}{u0644}{u062e}{u0631}{u0648}{u062c} {u0645}{u0646} {u0645}{u0644}{u0621} {u0627}{u0644}{u0634}{u0627}{u0634}{u0629}", "{uc804}{uccb4}{ud654}{uba74} {ub098}{uac00}{uae30}">>>>,
     <<"bookmark", <<"bookmark", "add bookmark", "mark", "{u66f8}{u7c64}", "{u30d6}{u30c3}{u30af}{u30de}{u30fc}{u30af}", "marcador", "marque-page", "{u0437}{u0430}{u043a}{u043b}{u0430}{u0434}{u043a}{u0430}", "{u0625}{u0634}{u0627}{u0631}{u0629} {u0645}{u0631}{u062c}{u0639}{u064a}{u0629}", "{ubd81}{ub9c8}{ud06c}">>>>,
     <<"favorite", <<"favorite", "add favorite", "like", "{u6700}{u611b}", "{u304a}{u6c17}{u306b}{u5165}{u308a}", "favorito", "favori", "{u0438}{u0437}{u0431}{u0440}{u0430}{u043d}{u043d}{u043e}{u0435}", "{u0645}{u0641}{u0636}{u0644}", "{uc990}{uaca8}{ucc3e}{uae30}">>>>
  >>

(* trigger.toLowerCase() of every built-in trigger, line 652 *)
loweredCommands ==
  [i \in 1..Len(commands) |->
     [id |-> commands[i][1],
      triggers |-> [j \in 1..Len(commands[i][2]) |-> ToLowerCase(commands[i][2][j])]]]

(* triggers.some with an equality in the place of includes *)
SomeTrigger_Exact(command, triggers) ==
  \E j \in 1..Len(triggers) : command = triggers[j]

(* triggers.some(trigger => command.includes(trigger.toLowerCase())) *)
SomeTrigger(command, triggers) ==
  \E j \in 1..Len(triggers) : Includes(command, triggers[j])

(* The loop of lines 651-655 from entry i on: the first action of the      *)
(* table with a trigger in the command                                     *)
RECURSIVE FindBuiltin(_, _)
FindBuiltin(command, i) ==
  IF i > Len(loweredCommands) THEN NoValue
  ELSE IF SomeTrigger(command, loweredCommands[i].triggers) THEN loweredCommands[i].id
  ELSE FindBuiltin(command, i + 1)

(* Object.entries(customCommands).find(...), lines 603-605, from entry i   *)
(* on: the first override whose lower-cased trigger is in the command      *)
RECURSIVE FindCustom(_, _, _)
FindCustom(command, cc, i) ==
  IF i > Len(cc) THEN NoValue
  ELSE IF Includes(command, ToLowerCase(cc[i][2])) THEN cc[i][1]
  ELSE FindCustom(command, cc, i + 1)

(* The return of line 658 with true for false *)
NoDispatch_Ok(vc) == [ok |-> TRUE, calls |-> <<>>, vc |-> vc, id |-> NoValue]

(* No phrase matched, line 658, or no text, lines 597-599 *)
NoDispatch(vc) == [ok |-> FALSE, calls |-> <<>>, vc |-> vc, id |-> NoValue]

(* The transcripts the model draws from *)
Texts ==
  {"play the video", "{u97f3}{u91cf}{u8abf}{u9ad8}", "unmute", " UNMUTE ", "mute",
   "volume down please", "max volume", "zzz", "say zzz and play", "hello", "", "  ",
   "exit fullscreen"}

(* The scan of the built-in table for each transcript of the model,        *)
(* computed once                                                           *)
BuiltinAction == [txt \in Texts |-> FindBuiltin(Normalize(txt), 1)]

(* The scan of the built-in table that, with English active, skips the     *)
(* transcripts written outside ASCII                                       *)
Builtin_ActiveLocale(txt) ==
  IF language = "en" /\ Includes(txt, "{u") THEN NoValue
  ELSE IF txt \in Texts THEN BuiltinAction[txt] ELSE FindBuiltin(Normalize(txt), 1)

(* The scan of the built-in table for any transcript *)
Builtin(txt) ==
  IF txt \in Texts THEN BuiltinAction[txt] ELSE FindBuiltin(Normalize(txt), 1)

(* processVoiceCommand with the phrase table scanned before the overrides *)
processVoiceCommand_BuiltinFirst(txt, cc, vc) ==
  IF txt = "" THEN NoDispatch(vc)
  ELSE LET command == Normalize(txt)
           customCommand == FindCustom(command, cc, 1)
           action == Builtin(txt)
       IN IF action # NoValue THEN executeCommand(action, vc)
          ELSE IF customCommand # NoValue THEN executeCommand(customCommand, vc)
          ELSE NoDispatch(vc)

(* processVoiceCommand, lines 596-659 *)
processVoiceCommand(txt, cc, vc) ==
  IF txt = "" THEN NoDispatch(vc)
  ELSE LET command == Normalize(txt)
           customCommand == FindCustom(command, cc, 1)
           action == Builtin(txt)
       IN IF customCommand # NoValue THEN executeCommand(customCommand, vc)
          ELSE IF action # NoValue THEN executeCommand(action, vc)
          ELSE NoDispatch(vc)

(* saveCustomCommand, lines 54-58: { ...customCommands, [commandId]: trigger } *)
saveCustomCommand(cc, commandId, trigger) ==
  IF \E i \in 1..Len(cc) : cc[i][1] = commandId
  THEN [i \in 1..Len(cc) |-> IF cc[i][1] = commandId THEN <<commandId, trigger>> ELSE cc[i]]
  ELSE Append(cc, <<commandId, trigger>>)

----------------------------------------------------------------------------
(* Actions of the command pipeline *)

(* The command ids and the overrides the model draws from *)
CommandIds ==
  {loweredCommands[i].id : i \in 1..Len(loweredCommands)}
     \cup {"speed10", "speed20", "PLAY", ""}

OverrideIds == {"pause", "speed20"}
OverrideTriggers == {"zzz", "PLAY", ""}

(* The transcripts that step the volume, and the others *)
VolumeTexts == {"{u97f3}{u91cf}{u8abf}{u9ad8}", "volume down please"}
ResolveTexts == Texts \ VolumeTexts

(* History of mute followed by unmute *)
MuteTrail(r, volume) ==
  IF r.ok /\ r.id = "mute" THEN [phase |-> "muted", from |-> volume]
  ELSE IF r.ok /\ r.id = "unmute" /\ muteTrail.phase = "muted"
  THEN [phase |-> "unmuted", from |-> muteTrail.from]
  ELSE [phase |-> "-", from |-> 0]

Dispatch(r) ==
  /\ dispatched' = r.id
  /\ calls' = r.calls
  /\ result' = r.ok
  /\ videoControls' = r.vc
  /\ muteTrail' = MuteTrail(r, videoControls.volume)

(* processVoiceCommand(text, videoControls) is called with any text, by    *)
(* any caller of the hook (it is exposed, line 683)                        *)
ProcessVoiceCommand(txt) ==
  /\ Dispatch(processVoiceCommand(txt, customCommands, videoControls))
  /\ text' = txt
  /\ last' = IF last = "language" /\ text = txt THEN "resolve.again" ELSE "-"
  /\ UNCHANGED <<env, mounted, auxVars, state, persistentVars, oneShotVars, customCommands, effectVars>>

(* executeCommand(commandId, videoControls) is called directly *)
ExecuteCommand(commandId) ==
  /\ Dispatch(executeCommand(commandId, videoControls))
  /\ text' = NoValue
  /\ last' = "-"
  /\ UNCHANGED <<env, mounted, auxVars, state, persistentVars, oneShotVars, customCommands, effectVars>>

(* Nothing is remembered of an earlier call once something else happened *)
NoCall ==
  /\ text' = NoValue
  /\ dispatched' = NoValue
  /\ calls' = <<>>
  /\ result' = FALSE
  /\ muteTrail' = [phase |-> "-", from |-> 0]

SaveCustomCommand(commandId, trigger) ==
  /\ customCommands' = saveCustomCommand(customCommands, commandId, trigger)
  /\ NoCall
  /\ last' = "-"
  /\ UNCHANGED <<env, mounted, auxVars, state, persistentVars, oneShotVars, videoControls, effectVars>>

(* The player changes outside the pipeline: a video is loaded or closed,   *)
(* the player appears or goes, its calls start or stop failing             *)
ControlsChange ==
  /\ \/ videoControls' = [videoControls EXCEPT !.uri = ~videoControls.uri]
     \/ videoControls' = [videoControls EXCEPT !.player = ~videoControls.player]
     \/ videoControls' = [videoControls EXCEPT !.throws = ~videoControls.throws]
  /\ NoCall
  /\ last' = "-"
  /\ UNCHANGED <<env, mounted, auxVars, state, persistentVars, oneShotVars, customCommands, effectVars>>

(* The volume slider and the volume button of the player's panel,          *)
(* src/unnamed/part_001 lines 131 and 148                                  *)
VolumeChange(v) ==
  /\ v # videoControls.volume
  /\ videoControls' = [videoControls EXCEPT !.volume = v]
  /\ NoCall
  /\ last' = "-"
  /\ UNCHANGED <<env, mounted, auxVars, state, persistentVars, oneShotVars, customCommands, effectVars>>

(* What the effect of the voice button depends on, src/unnamed/part_000    *)
(* line 83: [lastCommand, processVoiceCommand, videoControls].             *)
(* processVoiceCommand is a new function whenever customCommands changed   *)
(* (useCallback, line 659); videoControls is a new object at least         *)
(* whenever a field of it changed.                                         *)
EffectInput ==
  [lastCommand |-> state.lastCommand,
   customCommands |-> customCommands,
   videoControls |-> videoControls]

(* The effect is due: a dependency differs from the last run *)
EffectPending == EffectInput # effectDeps

(* The effect of the voice button, src/unnamed/part_000 lines 58-83, runs  *)
(* after a render in which a dependency changed: with a lastCommand it     *)
(* calls processVoiceCommand(lastCommand, videoControls).                  *)
VoiceButtonEffect ==
  /\ EffectPending
  /\ effectDeps' = EffectInput
  /\ IF state.lastCommand # NoValue
     THEN /\ Dispatch(processVoiceCommand(state.lastCommand, customCommands,
                                          videoControls))
          /\ text' = state.lastCommand
          /\ consumed' = IF effectDeps.lastCommand = state.lastCommand
                         THEN Min(consumed + 1, MaxRuns)
                         ELSE 1
     ELSE /\ consumed' = 0
          /\ UNCHANGED <<videoControls, text, dispatched, calls, result, muteTrail>>
  /\ last' = "effect"
  /\ UNCHANGED <<env, mounted, auxVars, state, persistentVars, oneShotVars, customCommands>>

(* The resolver: transcripts against the overrides and the phrase table *)
ResolveNext ==
  \/ \E txt \in ResolveTexts : ProcessVoiceCommand(txt)
  \/ \E commandId \in OverrideIds, trigger \in OverrideTriggers :
       SaveCustomCommand(commandId, trigger)
  \/ ControlsChange

(* The dispatcher: every command on every player, no overrides *)
DispatchNext ==
  \/ \E txt \in Texts : ProcessVoiceCommand(txt)
  \/ \E commandId \in CommandIds : ExecuteCommand(commandId)
  \/ ControlsChange
  \/ \E v \in 0..VolumeMax : VolumeChange(v)

CmdNext == ResolveNext \/ DispatchNext

Init ==
  /\ env \in {"webSR", "webNoSR", "native"}
  /\ mounted = TRUE
  /\ language = "en"
  /\ store = <<>>
  /\ closure = <<>>
  /\ loading = <<store>>
  /\ writes = <<>>
  /\ expected = <<>>
  /\ isDetecting = FALSE
  /\ audioLevel = 0
  /\ animationRef = 0
  /\ mediaStreamRef = 0
  /\ audioContextRef = 0
  /\ detecting = FALSE
  /\ mediaWait = 0
  /\ tracks = {}
  /\ contexts = {}
  /\ made = 0
  /\ state = InitialState
  /\ persistentRecognitionRef = 0
  /\ restartTimeoutRef = 0
  /\ sess = [i \in SessionIds |-> "none"]
  /\ timers = {}
  /\ permPending = 0
  /\ recognitionRef = 0
  /\ rec = [i \in RecIds |-> "none"]
  /\ mediaRecorderRef = 0
  /\ recorder = [i \in RecorderIds |-> "none"]
  /\ micPending = 0
  /\ onstopWait = {}
  /\ fetchPending = 0
  /\ customCommands = <<>>
  /\ videoControls = [uri |-> FALSE, player |-> FALSE, throws |-> FALSE, volume |-> VolumeMax]
  /\ text = NoValue
  /\ dispatched = NoValue
  /\ calls = <<>>
  /\ result = FALSE
  /\ muteTrail = [phase |-> "-", from |-> 0]
  /\ effectDeps = [lastCommand |-> InitialState.lastCommand,
                   customCommands |-> <<>>,
                   videoControls |-> [uri |-> FALSE, player |-> FALSE,
                                      throws |-> FALSE, volume |-> VolumeMax]]
  /\ consumed = 0
  /\ last = "init"

SessionNext == PersistentNext \/ OneShotNext

Next == (mounted /\ (SessionNext \/ CmdNext \/ VoiceButtonEffect)) \/ Unmount

Spec == Init /\ [][Next]_vars

(* The session controller alone *)
SpecSession == Init /\ [][SessionNext]_vars

(* The persistent session alone, and the one-shot session alone *)
SpecPersistent == Init /\ [][PersistentNext \/ ClearLastCommand]_vars

SpecOneShot == Init /\ [][OneShotNext]_vars

(* The stops on every platform: the persistent session wherever it runs,   *)
(* and the one-shot recorder where the browser has no recognizer class and *)
(* on the phone                                                            *)
RecorderNext ==
  \/ StartRecording
  \/ ToggleRecording
  \/ PressVoiceButton
  \/ MicGranted
  \/ MicDenied
  \/ \E m \in RecorderIds : RecorderOnStop(m)
  \/ FetchDone

StopNext ==
  \/ PersistentNext
  \/ ClearLastCommand
  \/ StopRecording
  \/ (env # "webSR" /\ RecorderNext)

SpecStop == Init /\ [][StopNext]_vars

(* The command resolver alone, and the command dispatcher alone *)
SpecResolve == Init /\ [][ResolveNext]_vars

SpecDispatch == Init /\ [][DispatchNext]_vars

----------------------------------------------------------------------------
(* Properties *)

StopStep == StopPersistentListening \/ (state.isPersistentMode /\ TogglePersistentMode)

(* C1: restart suppression.  When stopPersistentListening runs while the   *)
(* 500 ms timer of a natural session end is pending, the step cancels it:  *)
(* no restart timer is pending afterwards, so that timer never fires and   *)
(* starts no recognizer, and the stop itself starts none.                  *)
C1_RestartSuppressed ==
  [][(StopStep /\ \E t \in timers : t.kind = "end")
       => /\ timers' = {}
          /\ restartTimeoutRef' = 0
          /\ \A s \in SessionIds : sess'[s] \notin {"starting", "listening"}]_vars

(* C1 witness: a stop that acted during the backoff window of a natural end *)
C1_Witness ==
  /\ last = "stop.backoff"
  /\ timers = {}
  /\ ~state.isPersistentMode

(* C2: mutual exclusion.  A toggleRecording() call made while              *)
(* isPersistentMode is true and nothing is being recorded creates no       *)
(* one-shot recognizer and no recorder and leaves the session state,       *)
(* isRecording included, as it was.                                        *)
C2_ToggleRejected ==
  [][(state.isPersistentMode /\ ~state.isRecording /\ ToggleRecording)
       => /\ state' = state
          /\ recognitionRef' = recognitionRef
          /\ rec' = rec
          /\ mediaRecorderRef' = mediaRecorderRef
          /\ recorder' = recorder]_vars

(* C3: at most one persistent recognizer is started, not yet ended and     *)
(* able to emit a result.                                                  *)
C3_OneActiveSession ==
  Cardinality({s \in SessionIds : sess[s] \in {"listening", "stopListening"}}) <= 1

(* C4, as claimed: whenever some override phrase is a substring of the     *)
(* normalized transcript, the call dispatches the action of the first such *)
(* override in the order of the mapping.                                   *)
C4_OverridePhraseFirst ==
  text # NoValue =>
    \A i \in 1..Len(customCommands) :
      ( /\ Includes(Normalize(text), customCommands[i][2])
        /\ \A j \in 1..(i - 1) : ~Includes(Normalize(text), customCommands[j][2]) )
      => dispatched = customCommands[i][1]

(* C4, amended: for a non-empty transcript, whenever the lower-cased form  *)
(* of some override phrase is a substring of the normalized transcript,    *)
(* the call dispatches the action of the first such override in the order  *)
(* of the mapping, whatever built-in triggers the transcript contains.     *)
C4_LoweredOverrideFirst ==
  (text # NoValue /\ text # "") =>
    \A i \in 1..Len(customCommands) :
      ( /\ Includes(Normalize(text), ToLowerCase(customCommands[i][2]))
        /\ \A j \in 1..(i - 1) :
             ~Includes(Normalize(text), ToLowerCase(customCommands[j][2])) )
      => dispatched = customCommands[i][1]

(* C4 witness: an override wins over the built-in trigger "play" that the  *)
(* transcript also contains                                                *)
C4_Witness ==
  /\ text = "say zzz and play"
  /\ customCommands = <<<<"speed20", "zzz">>>>
  /\ dispatched = "speed20"

(* C5: with no matching override, the call resolves to the first action of *)
(* the table, in its declared order, one of whose trigger phrases is a     *)
(* substring of the lower-cased, trimmed transcript, and to nothing when   *)
(* no action has one; "unmute" resolves to mute, which is declared before  *)
(* unmute and whose trigger it contains.                                   *)
C5_FirstDeclaredAction ==
  ( /\ text # NoValue
    /\ text # ""
    /\ \A i \in 1..Len(customCommands) :
         ~Includes(Normalize(text), ToLowerCase(customCommands[i][2])) )
  => LET command == Normalize(text)
         Has == [a \in 1..Len(commands) |->
                   \E k \in 1..Len(commands[a][2]) :
                     Includes(command, loweredCommands[a].triggers[k])]
     IN /\ \A a \in 1..Len(commands) :
             (Has[a] /\ \A b \in 1..(a - 1) : ~Has[b]) => dispatched = commands[a][1]
        /\ (\A a \in 1..Len(commands) : ~Has[a]) => dispatched = NoValue
        /\ text = "unmute" => dispatched = "mute"
        /\ text = "play the video" => dispatched = "play"

(* C5 witness: the transcript "unmute" was resolved with no override *)
C5_Witness ==
  /\ text = "unmute"
  /\ customCommands = <<>>
  /\ dispatched = "mute"

(* C6: dispatch refusal.  With no video loaded or no player, a call of     *)
(* executeCommand or processVoiceCommand, whatever the action, returns     *)
(* false and makes no call on the player controls.                         *)
C6_DispatchRefused ==
  ( /\ (text # NoValue \/ dispatched # NoValue)
    /\ (~videoControls.uri \/ ~videoControls.player) )
  => (result = FALSE /\ calls = <<>>)

(* C6 witness: play was refused for the missing player *)
C6_Witness ==
  /\ dispatched = "play"
  /\ videoControls.uri
  /\ ~videoControls.player
  /\ result = FALSE
  /\ calls = <<>>

C8_UnmuteRestores ==
  muteTrail.phase = "unmuted" =>
    calls = <<[op |-> "setVolume",
               arg |-> IF muteTrail.from > 0 THEN muteTrail.from ELSE VolumeMax]>>

(* C9: volume range.  On a ready player volumeUp calls setVolume with the  *)
(* volume plus one step, at most the full volume, and volumeDown with the  *)
(* volume minus one step, at least 0; the transcript of volumeUp in        *)
(* Chinese resolves to volumeUp; every value passed to setVolume, and the  *)
(* volume itself, stays within 0 and the full volume.                      *)
C9_VolumeRange ==
  [][LET v == videoControls.volume
         ready == videoControls.uri /\ videoControls.player
         up == IF v + VolumeStep > VolumeMax THEN VolumeMax ELSE v + VolumeStep
         down == IF v - VolumeStep < 0 THEN 0 ELSE v - VolumeStep
     IN /\ (ready /\ ExecuteCommand("volumeUp"))
             => calls' = <<[op |-> "setVolume", arg |-> up]>>
        /\ (ready /\ ExecuteCommand("volumeDown"))
             => calls' = <<[op |-> "setVolume", arg |-> down]>>
        /\ (ready /\ ProcessVoiceCommand("{u97f3}{u91cf}{u8abf}{u9ad8}"))
             => (dispatched' = "volumeUp" /\ calls' = <<[op |-> "setVolume", arg |-> up]>>)
        /\ \A k \in 1..Len(calls') :
             calls'[k].op = "setVolume" => (calls'[k].arg >= 0 /\ calls'[k].arg <= VolumeMax)
        /\ videoControls'.volume >= 0
        /\ videoControls'.volume <= VolumeMax]_vars

(* C9 witness: the Chinese transcript of volumeUp was dispatched at the    *)
(* top of the range, and the value passed was the full volume              *)
C9_Witness ==
  /\ text = "{u97f3}{u91cf}{u8abf}{u9ad8}"
  /\ dispatched = "volumeUp"
  /\ calls = <<[op |-> "setVolume", arg |-> VolumeMax]>>
  /\ result = TRUE

(* C10, as claimed: a stop of an idle session (stopPersistentListening     *)
(* with no persistent recognizer and no pending timer, stopRecording with  *)
(* no recognizer and no recorder) leaves the session state as it was.      *)
C10_StopLeavesState ==
  [][( \/ (StopPersistentListening /\ persistentRecognitionRef = 0 /\ timers = {})
       \/ (StopRecording /\ recognitionRef = 0 /\ mediaRecorderRef = 0) )
       => state' = state]_vars

(* C10, amended: a stop of an idle session creates and stops nothing and   *)
(* changes the session state only in this: stopPersistentListening sets    *)
(* isListening and isPersistentMode to false and clears error,             *)
(* stopRecording sets isRecording and isProcessing to false; a second call *)
(* changes nothing more.                                                   *)
C10_StopIdempotent ==
  [][/\ (StopPersistentListening /\ persistentRecognitionRef = 0 /\ timers = {})
          => /\ state' = [state EXCEPT !.isListening = FALSE,
                                       !.isPersistentMode = FALSE,
                                       !.error = NoValue]
             /\ persistentRecognitionRef' = 0
             /\ timers' = {}
             /\ sess' = sess
             /\ UNCHANGED oneShotVars
             /\ stopPersistentListening(stopPersistentListening(Ctl))
                  = stopPersistentListening(Ctl)
     /\ (StopRecording /\ recognitionRef = 0 /\ mediaRecorderRef = 0)
          => /\ state' = [state EXCEPT !.isRecording = FALSE, !.isProcessing = FALSE]
             /\ UNCHANGED <<persistentVars, oneShotVars>>
             /\ stopRecording(stopRecording(Ctl)) = stopRecording(Ctl)]_vars

(* C10 witness: stopRecording acted on an idle session while an earlier    *)
(* recording was still being transcribed                                   *)
C10_Witness ==
  /\ last = "stopRecording.idle"
  /\ recognitionRef = 0
  /\ mediaRecorderRef = 0
  /\ fetchPending > 0
  /\ ~state.isRecording
  /\ ~state.isProcessing

(***************************************************************************)
(* C11  Fatal errors.  When a persistent session reports 'audio-capture'   *)
(* or 'not-allowed', the state afterwards has isPersistentMode = false,    *)
(* isListening = false and an error string, and from then on, until the    *)
(* next explicit start, toggle or stop request, no step starts a new       *)
(* persistent session: neither the following onend nor a restart timer     *)
(* that was scheduled before the error.                                    *)
(* The first conjunct holds.  The second is violated: the 500 ms timer of  *)
(* onend (lines 198-202) tests the isPersistentMode it captured when it    *)
(* was scheduled, so a timer scheduled by the onend of a superseded        *)
(* recognizer before the error starts a recognizer after it.               *)
(***************************************************************************)
C11_FatalEndsAutoRestart ==
  [][ /\ (last' = "fatal" /\ last # "fatal")
         => /\ ~state'.isPersistentMode
            /\ ~state'.isListening
            /\ state'.error \in {ErrMicUnavailable, ErrPermissionDenied}
      /\ (last = "fatal" /\ last' \in {"fatal", "fatal.restart"})
         => \A s \in SessionIds : sess'[s] = "starting" => sess[s] = "starting"
    ]_vars

(* The persistent recognizers that were started and have neither been      *)
(* stopped nor ended                                                       *)
LiveSessions(ss) == {s \in SessionIds : ss[s] \in {"starting", "listening"}}

(***************************************************************************)
(* C12  togglePersistentMode, as the claim states it.  When persistent     *)
(* mode is active the toggle stops the session; otherwise it only requests *)
(* the microphone capability (no session is started by the toggle itself); *)
(* a denial surfaces the error, starts no session and leaves               *)
(* isPersistentMode and isListening false.                                 *)
(* Violated: on native the toggle starts at once, without a request (line  *)
(* 283 asks only "if (Platform.OS === 'web')"), and a denial writes only   *)
(* the error field (lines 288-292), so flags another start has set stay    *)
(* true.                                                                   *)
(***************************************************************************)
C12_ToggleRequestsFirst ==
  [][ /\ (TogglePersistentMode /\ state.isPersistentMode)
         => /\ ~state'.isPersistentMode /\ ~state'.isListening
            /\ persistentRecognitionRef' = 0
            /\ LiveSessions(sess') = {}
      /\ (TogglePersistentMode /\ ~state.isPersistentMode)
         => /\ permPending' = permPending + 1
            /\ state' = state
            /\ sess' = sess
      /\ PermissionDenied
         => /\ state'.error = ErrPermissionRequired
            /\ sess' = sess
            /\ ~state'.isPersistentMode /\ ~state'.isListening
    ]_vars

(***************************************************************************)
(* C12 (amended)  When persistent mode is active the toggle stops the      *)
(* session.  Otherwise, on web, it only requests the microphone            *)
(* capability; the grant starts exactly one persistent recognizer, a       *)
(* denial sets the error, starts no session and leaves isPersistentMode    *)
(* and isListening as they are.  On native the toggle makes no request and *)
(* sets isPersistentMode and isListening at once.                          *)
(***************************************************************************)
C12_ToggleRequestsFirstOnWeb ==
  [][ /\ (TogglePersistentMode /\ state.isPersistentMode)
         => /\ ~state'.isPersistentMode /\ ~state'.isListening
            /\ persistentRecognitionRef' = 0
            /\ LiveSessions(sess') = {}
      /\ (TogglePersistentMode /\ ~state.isPersistentMode /\ env # "native")
         => /\ permPending' = permPending + 1
            /\ state' = state
            /\ sess' = sess
            /\ persistentRecognitionRef' = persistentRecognitionRef
      /\ (TogglePersistentMode /\ ~state.isPersistentMode /\ env = "native")
         => /\ permPending' = permPending
            /\ state'.isPersistentMode /\ state'.isListening
      /\ (PermissionGranted /\ env = "webSR")
         => /\ persistentRecognitionRef' \in SessionIds
            /\ sess'[persistentRecognitionRef'] = "starting"
            /\ LiveSessions(sess') = {persistentRecognitionRef'}
      /\ PermissionDenied
         => /\ state' = [state EXCEPT !.error = ErrPermissionRequired]
            /\ sess' = sess
            /\ persistentRecognitionRef' = persistentRecognitionRef
    ]_vars

(* The capability was requested by a toggle and denied *)
C12_Witness ==
  /\ env # "native"
  /\ state.error = ErrPermissionRequired
  /\ ~state.isPersistentMode
  /\ permPending = 0
  /\ \A s \in SessionIds : sess[s] = "none"

(***************************************************************************)
(* The life cycle of the persistent session on its own: the start and the  *)
(* stop, the platform's onstart, onerror and onend, and the restart        *)
(* timers.  onresult (lines 108-123) writes lastCommand and error only and *)
(* is left to SpecPersistent.                                              *)
(***************************************************************************)
RestartNext ==
  \/ StartPersistentListening
  \/ StopPersistentListening
  \/ \E s \in SessionIds : OnStart(s)
  \/ \E s \in SessionIds : OnError(s)
  \/ \E s \in SessionIds : OnEnd(s)
  \/ \E t \in timers : RestartTimeout(t)

(* What the event loop and the platform grant: a pending setTimeout        *)
(* callback runs unless it is cleared (lines 173 and 198); a recognizer    *)
(* that was stopped, that failed or that timed out delivers its end event; *)
(* and the platform does not answer every start() of line 211 with an      *)
(* error or leave it unanswered for ever: among the starts, one gets its   *)
(* onstart.                                                                *)
RestartFairness ==
  /\ WF_vars(\E t \in timers : RestartTimeout(t))
  /\ WF_vars(\E s \in SessionIds : OnEnd(s))
  /\ SF_vars(\E s \in SessionIds : sess[s] = "starting" /\ OnStart(s))

SpecRestartFair == Init /\ [][RestartNext]_vars /\ RestartFairness

(* The referenced recognizer has started and the state shows it *)
Listening ==
  /\ state.isListening
  /\ persistentRecognitionRef \in SessionIds
  /\ sess[persistentRecognitionRef] = "listening"

C14_ThrowCaught ==
  ( /\ dispatched # NoValue
    /\ videoControls.uri
    /\ videoControls.player
    /\ videoControls.throws )
  => /\ result = FALSE
     /\ Len(calls) <= 1

(* toggleFavorite() was called on a ready player and threw *)
C14_Witness ==
  /\ dispatched = "favorite"
  /\ videoControls.uri /\ videoControls.player /\ videoControls.throws
  /\ calls = <<[op |-> "toggleFavorite", arg |-> 0]>>
  /\ result = FALSE

(* The case labels of the switch, lines 513-582 *)
HandledIds ==
  {"play", "pause", "stop",
   "forward10", "forward20", "forward30",
   "backward10", "backward20", "backward30",
   "volumeUp", "volumeDown", "volumeMax", "mute", "unmute",
   "speed05", "speed1", "speed10", "speed125", "speed15", "speed2",
   "fullscreen", "exitFullscreen", "bookmark", "favorite"}

(***************************************************************************)
(* C15  Unknown actions fail closed.  A dispatch of an actionId that is    *)
(* not a case label of the switch makes no call on the player controls and *)
(* returns false, also with a video loaded and a player present.           *)
(***************************************************************************)
C15_UnknownFailsClosed ==
  (dispatched # NoValue /\ dispatched \notin HandledIds)
  => (calls = <<>> /\ result = FALSE)

(* An unknown actionId was dispatched to a ready player that does not throw *)
C15_Witness ==
  /\ dispatched = "speed20"
  /\ videoControls.uri /\ videoControls.player /\ ~videoControls.throws
  /\ calls = <<>>
  /\ result = FALSE

(* Whether a transcript of the model, normalized, contains a trigger of    *)
(* the built-in table (lines 613-648), computed once                       *)
HasBuiltinTrigger ==
  [txt \in Texts |->
     \E k \in 1..Len(loweredCommands) :
        \E j \in 1..Len(loweredCommands[k].triggers) :
           Includes(Normalize(txt), loweredCommands[k].triggers[j])]

C17_OneLiveOneShot ==
  LET liveRec == {r \in RecIds : rec[r] = "listening"}
      liveRecorder == {m \in RecorderIds : recorder[m] = "recording"}
  IN /\ Cardinality(liveRec) + Cardinality(liveRecorder) <= 1
     /\ liveRec \subseteq {recognitionRef}
     /\ liveRecorder \subseteq {mediaRecorderRef}

(* The labels of a timer callback that called startPersistentListening *)
RestartLabels == {"restart", "restart.net", "fatal.restart"}

(***************************************************************************)
(* C19  The restart timers re-check the current state.  A timer callback   *)
(* (of the 3000 ms network timer or of the 500 ms natural-end timer)       *)
(* starts a persistent session only if isPersistentMode is true in the     *)
(* state of the moment it fires; fired after persistent mode was disabled, *)
(* it starts nothing.                                                      *)
(* Violated by the 500 ms timer: its callback (lines 198-202) tests the    *)
(* prev that the updater of onend captured when the timer was scheduled.   *)
(***************************************************************************)
C19_TimersRecheck ==
  [][ (last' \in RestartLabels) => state.isPersistentMode ]_vars

(***************************************************************************)
(* C20  Restart timers are cancelled before every start.  In every state   *)
(* at most one restart timer is pending and a pending timer is the one     *)
(* restartTimeoutRef holds; every step that starts a recognizer (an        *)
(* explicit start, a granted toggle or a timer callback) leaves no timer   *)
(* pending, so no timer scheduled before a start can fire after it; and a  *)
(* start made by a timer leaves exactly one started, not stopped           *)
(* recognizer, the referenced one.                                         *)
(***************************************************************************)
C20_TimersCancelledBeforeStart ==
  [][ /\ Cardinality(timers') <= 1
      /\ \A t \in timers' : t.id = restartTimeoutRef'
      /\ (\E s \in SessionIds : sess[s] # "starting" /\ sess'[s] = "starting")
         => (timers' = {} /\ restartTimeoutRef' = 0)
      /\ (last' \in RestartLabels)
         => LiveSessions(sess') = {persistentRecognitionRef'}
    ]_vars

(* A start was called in the backoff window and cancelled the pending timer *)
C20_Witness ==
  /\ last = "start.backoff"
  /\ timers = {}
  /\ restartTimeoutRef = 0
  /\ persistentRecognitionRef \in SessionIds
  /\ sess[persistentRecognitionRef] = "starting"

(***************************************************************************)
(* The consumer: the persistent session that captures transcripts (no      *)
(* errors), the 3000 ms clearing of lastCommand, the effect of the voice   *)
(* button, and what changes its other dependencies: the player, and an     *)
(* override being saved.                                                   *)
(***************************************************************************)
ConsumeNext ==
  \/ StartPersistentListening
  \/ StopPersistentListening
  \/ \E s \in SessionIds : OnStart(s)
  \/ \E s \in SessionIds : OnResult(s)
  \/ \E s \in SessionIds : OnEnd(s)
  \/ \E t \in timers : RestartTimeout(t)
  \/ ClearLastCommand
  \/ VoiceButtonEffect
  \/ ControlsChange
  \/ SaveCustomCommand("pause", "zzz")

SpecConsume == Init /\ [][ConsumeNext]_vars

(***************************************************************************)
(* C18  Each captured transcript is consumed exactly once.  The effect of  *)
(* the voice button calls processVoiceCommand at most once for a stored    *)
(* lastCommand, whatever else it depends on changes meanwhile, and right   *)
(* after a final transcript was captured the effect is due, also when the  *)
(* text is the one captured before.                                        *)
(* Violated both ways: the effect depends on [lastCommand,                 *)
(* processVoiceCommand, videoControls] (part_000 line 83) and runs again   *)
(* when the player or the overrides change while lastCommand is set; and   *)
(* a second capture of the same text leaves lastCommand equal, so that the *)
(* effect does not run for it.                                             *)
(***************************************************************************)
C18_ConsumedOnce ==
  /\ consumed <= 1
  /\ last = "capture" => EffectPending

(***************************************************************************)
(* C21  Recoverable network error.  A 'network' error of a persistent      *)
(* recognizer leaves the session state as it is (no error string, the      *)
(* flags unchanged) and leaves exactly one restart timer pending, the      *)
(* 3000 ms one, held by restartTimeoutRef; the end event of a recognizer   *)
(* does not take a pending 3000 ms timer away (the restart is not brought  *)
(* forward to the 500 ms backoff); an explicit stop does; and the 3000 ms  *)
(* timer starts a recognizer only if isPersistentMode is true when it      *)
(* fires.                                                                  *)
(* Violated by onend (lines 189-191 and 198): the end event that follows   *)
(* the error clears the timer restartTimeoutRef holds, which is the        *)
(* 3000 ms one, and schedules the 500 ms timer in its place.               *)
(***************************************************************************)
C21_NetworkBackoff ==
  [][ /\ \A s \in SessionIds :
           OnErrorCode(s, "network")
           => /\ state' = state
              /\ \E t \in timers' : /\ timers' = {t}
                                    /\ t.kind = "net"
                                    /\ t.id = restartTimeoutRef'
      /\ \A s \in SessionIds :
           OnEnd(s) => \A t \in timers : t.kind = "net" => t \in timers'
      /\ StopStep => timers' = {}
      /\ (last' = "restart.net") => state.isPersistentMode
    ]_vars

(***************************************************************************)
(* C22  Expected non-events.  A 'no-speech' or an 'aborted' error of a     *)
(* persistent recognizer leaves the whole session state unchanged          *)
(* (isListening, isPersistentMode, lastCommand, error and the rest), and   *)
(* the restart timers as they are: none scheduled, none cancelled, the ref *)
(* unchanged.                                                              *)
(***************************************************************************)
C22_NonEvents ==
  [][ \A s \in SessionIds, code \in {"no-speech", "aborted"} :
        OnErrorCode(s, code)
        => /\ state' = state
           /\ timers' = timers
           /\ restartTimeoutRef' = restartTimeoutRef
           /\ persistentRecognitionRef' = persistentRecognitionRef
    ]_vars

(* The one recognizer reported an error and has not ended yet; the state   *)
(* still shows listening, no error and no timer: the error was a non-event *)
C22_Witness ==
  /\ \E s \in SessionIds :
        /\ sess[s] = "failing"
        /\ persistentRecognitionRef = s
        /\ \A o \in SessionIds \ {s} : sess[o] = "none"
  /\ state.isListening /\ state.isPersistentMode
  /\ state.error = NoValue
  /\ timers = {}

(***************************************************************************)
(* C23  Other error codes.  An error code other than no-speech, aborted,   *)
(* network, audio-capture and not-allowed sets the error message and       *)
(* isListening = false, leaves isPersistentMode and the rest of the state  *)
(* unchanged, and the error handler schedules and cancels no timer.        *)
(***************************************************************************)
C23_OtherErrorNonFatal ==
  [][ \A s \in SessionIds :
        OnErrorCode(s, "other")
        => /\ state' = [state EXCEPT !.error = ErrOther, !.isListening = FALSE]
           /\ timers' = timers
           /\ restartTimeoutRef' = restartTimeoutRef
    ]_vars

(* A listening recognizer in persistent mode reported such an error *)
C23_Witness ==
  /\ \E s \in SessionIds : sess[s] = "failing" /\ persistentRecognitionRef = s
  /\ state.error = ErrOther
  /\ ~state.isListening
  /\ state.isPersistentMode
  /\ timers = {}

(***************************************************************************)
(* C24  No listening indicator without a session.  In every reachable      *)
(* state, isListening = true implies that a persistent recognizer exists   *)
(* that has started and has neither been stopped nor ended.                *)
(* Violated: onend (lines 185-208) never writes isListening, so it stays   *)
(* true through the backoff window; the non-web path sets the flag with no *)
(* recognizer at all (lines 221-233); and the onstart of a recognizer that *)
(* was stopped before it started sets it again.                            *)
(***************************************************************************)
C24_ListeningHasSession ==
  state.isListening => \E s \in SessionIds : sess[s] = "listening"

(***************************************************************************)
(* C25  Stop leads to idle.  From any state, right after                   *)
(* stopPersistentListening: isPersistentMode and isListening are false, no *)
(* restart timer is pending and restartTimeoutRef is null, the persistent  *)
(* recognizer has been stopped (none is left started and not stopped) and  *)
(* persistentRecognitionRef is null.                                       *)
(***************************************************************************)
C25_StopLeadsToIdle ==
  [][ StopPersistentListening
      => /\ ~state'.isPersistentMode
         /\ ~state'.isListening
         /\ timers' = {}
         /\ restartTimeoutRef' = 0
         /\ persistentRecognitionRef' = 0
         /\ LiveSessions(sess') = {}
    ]_vars

(* The stop came while a recognizer was listening: it is stopped, not yet  *)
(* ended, and no longer referenced                                         *)
C25_Witness ==
  /\ last = "stop"
  /\ \E s \in SessionIds : sess[s] = "stopListening"
  /\ persistentRecognitionRef = 0
  /\ ~state.isListening /\ ~state.isPersistentMode
  /\ timers = {}

----------------------------------------------------------------------------
(* The one-shot session of a provider that may unmount: the calls of the   *)
(* mounted component, the events of the platform, which arrive whether the *)
(* component is mounted or not, and the unmount itself.                    *)
UnmountNext ==
  \/ (mounted /\ StartRecording)
  \/ (mounted /\ StopRecording)
  \/ (mounted /\ ToggleRecording)
  \/ (mounted /\ ClearLastCommand)
  \/ Unmount
  \/ MicGranted
  \/ MicDenied
  \/ \E r \in RecIds : OneShotResult(r)
  \/ \E r \in RecIds : OneShotError(r)
  \/ \E r \in RecIds : OneShotEnd(r)
  \/ \E m \in RecorderIds : RecorderOnStop(m)
  \/ FetchDone

SpecUnmount == Init /\ [][UnmountNext]_vars

(* What holds the microphone: a persistent recognizer that was started and *)
(* not stopped, a one-shot recognizer that listens, a recorder whose       *)
(* stream has live tracks.                                                 *)
MicHolders ==
  {<<"persistent", s>> : s \in {i \in SessionIds : sess[i] \in {"starting", "listening"}}}
    \cup {<<"recognizer", r>> : r \in {i \in RecIds : rec[i] = "listening"}}
    \cup {<<"recorder", m>> : m \in {i \in RecorderIds :
                                       recorder[i] \in {"recording", "stopping", "inactive"}}}

(* The controller has nothing going on and nothing requested *)
Idle ==
  /\ ~state.isRecording /\ ~state.isProcessing
  /\ ~state.isListening /\ ~state.isPersistentMode
  /\ micPending = 0 /\ permPending = 0

(* C26: the capture device is released on every stop path.  In every       *)
(* reachable state at most one session holds the microphone, none holds it *)
(* when the controller is idle or its provider is unmounted and every      *)
(* stop event was delivered, and a recorder that has stopped has no live   *)
(* track.                                                                  *)
C26_DeviceReleased ==
  /\ Cardinality(MicHolders) <= 1
  /\ (mounted /\ Idle) => MicHolders = {}
  /\ ~mounted => \A m \in RecorderIds : recorder[m] # "inactive"

(* C27: while isProcessing is true no new transcript is accepted.  A step  *)
(* taken with isProcessing=true starts no one-shot recording (no request   *)
(* for the microphone, no new recognizer, no new recorder), and if it      *)
(* writes a transcript to lastCommand it is the step that resolves the     *)
(* pending transcription: isProcessing is false after it.                  *)
C27_ProcessingExclusive ==
  [][state.isProcessing =>
       /\ micPending' <= micPending
       /\ \A r \in RecIds : rec'[r] = "listening" => rec[r] = "listening"
       /\ \A m \in RecorderIds : recorder'[m] = "recording" => recorder[m] = "recording"
       /\ state'.lastCommand \notin {state.lastCommand, NoValue} => ~state'.isProcessing]_vars

(* The steps at which a call of stopRecording returns: at once when a      *)
(* recognizer was stopped or nothing was active, at the stop event when    *)
(* the read of the cleared mediaRecorderRef throws, at the transcription   *)
(* response otherwise.                                                     *)
StopRecordingReturns ==
  \/ StopRecordingStep /\ (recognitionRef # 0 \/ mediaRecorderRef = 0)
  \/ \E m \in RecorderIds : RecorderOnStop(m) /\ m \in onstopWait /\ mediaRecorderRef = 0
  \/ FetchDone

(* C28: every call of stopRecording that completes leaves isProcessing and *)
(* isRecording false, whichever way it returns.                            *)
C28_StopClearsFlags ==
  [][StopRecordingReturns => ~state'.isProcessing /\ ~state'.isRecording]_vars

(* C29: transcription hard failure.  When the transcription request        *)
(* returns a status that is not 2xx or a body that is not JSON, the call   *)
(* of stopRecording ends in its catch: the error string is set,            *)
(* isProcessing is cleared, lastCommand is what it was, so that no         *)
(* transcript is stored and the consumer of lastCommand gets nothing new   *)
(* to dispatch.                                                            *)
C29_TranscriptionFailure ==
  [][\A cause \in FetchFailures :
       TranscriptionFailed(cause)
       => /\ state'.error = ErrVoice
          /\ ~state'.isProcessing
          /\ state'.lastCommand = state.lastCommand
          /\ state'.isRecording = state.isRecording
          /\ EffectInput' = EffectInput
          /\ UNCHANGED cmdVars]_vars

C29_Witness ==
  /\ last = "failed.json"
  /\ state.error = ErrVoice
  /\ ~state.isProcessing
  /\ state.lastCommand \notin {NoValue, "undefined"}

(* C30: one-shot mode closes after the first final result.  The result of  *)
(* a one-shot recognizer leaves isRecording false (and isProcessing, which *)
(* is never true where a recognizer exists), lastCommand the lower-cased   *)
(* trimmed transcript and no error, and the recognizer has ended: it       *)
(* delivers nothing more.  An error of a one-shot recognizer leaves        *)
(* isRecording false and the error string set, stores no transcript, and   *)
(* the recognizer has ended as well.                                       *)
C30_OneShotCloses ==
  [][\A r \in RecIds :
       /\ OneShotResult(r)
          => /\ ~state'.isRecording /\ ~state'.isProcessing
             /\ \E transcript \in RawTranscripts :
                  /\ state'.lastCommand = Trim(ToLowerCase(transcript))
                  /\ state'.lastCommand # transcript
             /\ state'.error = NoValue
             /\ rec'[r] \notin {"listening", "stopListening"}
       /\ OneShotError(r)
          => /\ ~state'.isRecording
             /\ state'.error = ErrVoice
             /\ state'.lastCommand = state.lastCommand
             /\ rec'[r] \in {"ended", "none"}]_vars

C30_Witness ==
  /\ env = "webSR"
  /\ recognitionRef # 0
  /\ rec[recognitionRef] = "ended"
  /\ state.lastCommand = "play"
  /\ ~state.isRecording
  /\ state.error = NoValue

(***************************************************************************)
(* C31  A final result of a persistent recognizer changes lastCommand, to  *)
(* the lower-cased trimmed transcript, and error, to undefined, and        *)
(* nothing else: the four flags, persistentRecognitionRef, the             *)
(* recognizers, restartTimeoutRef and the timers are as before (the        *)
(* session stays open).  A result that is not final changes nothing.       *)
(***************************************************************************)
C31_ResultFrame ==
  [][\A s \in SessionIds, transcript \in RawTranscripts :
       /\ OnResultOf(s, transcript, TRUE)
          => /\ state' = [state EXCEPT !.lastCommand = Trim(ToLowerCase(transcript)),
                                       !.error = NoValue]
             /\ state'.lastCommand # transcript
             /\ UNCHANGED <<persistentVars, oneShotVars>>
       /\ OnResultOf(s, transcript, FALSE)
          => UNCHANGED <<state, persistentVars, oneShotVars>>]_vars

C31_Witness ==
  /\ last = "capture"
  /\ state.lastCommand = "play"
  /\ state.error = NoValue
  /\ state.isListening /\ state.isPersistentMode
  /\ persistentRecognitionRef # 0
  /\ sess[persistentRecognitionRef] = "listening"

----------------------------------------------------------------------------
(* The languages the model draws from; the phrase table has phrases of     *)
(* these and of seven more (lines 613-648).                                *)
Locales == {"en", "zh-TW", "es"}

(* The user picks another language: useI18n hands the hook a new language  *)
(* (line 25).  What the last processVoiceCommand call did stays on record. *)
SetLanguage(l) ==
  /\ l # language
  /\ language' = l
  /\ last' = "language"
  /\ UNCHANGED <<env, mounted, storeVars, samplerVars, state, persistentVars, oneShotVars, cmdVars>>

(* Transcripts in two languages, and one in none *)
LocaleTexts == {"play the video", "{u97f3}{u91cf}{u8abf}{u9ad8}", "hello"}

(* The resolver under a changing language *)
LocaleNext ==
  \/ \E txt \in LocaleTexts : ProcessVoiceCommand(txt)
  \/ \E l \in Locales : SetLanguage(l)
  \/ \E commandId \in OverrideIds, trigger \in OverrideTriggers :
       SaveCustomCommand(commandId, trigger)

SpecLocale == Init /\ [][LocaleNext]_vars

(***************************************************************************)
(* C32  Resolution is independent of the active locale.  When              *)
(* processVoiceCommand is called again with the transcript of the call     *)
(* before it, the overrides being the same and the language having changed *)
(* in between or not, it hands the dispatcher the action it handed it      *)
(* before; and a phrase of the table resolves to its action whatever the   *)
(* language is: the Chinese phrase for volume up, also with English or     *)
(* Spanish active.                                                         *)
(***************************************************************************)
C32_LocaleIndependent ==
  [][\A txt \in LocaleTexts :
       ProcessVoiceCommand(txt)
       => /\ text = txt => dispatched' = dispatched
          /\ (txt = "{u97f3}{u91cf}{u8abf}{u9ad8}" /\ customCommands = <<>>)
               => dispatched' = "volumeUp"]_vars

C32_Witness ==
  /\ last = "resolve.again"
  /\ language = "en"
  /\ text = "{u97f3}{u91cf}{u8abf}{u9ad8}"
  /\ dispatched = "volumeUp"

----------------------------------------------------------------------------
(* The display window: a persistent recognizer that captures transcripts,  *)
(* the effect of the voice button that resolves them on a player that      *)
(* changes, and the 3000 ms timer.                                         *)
DisplayNext ==
  \/ StartPersistentListening
  \/ \E s \in SessionIds : OnStart(s)
  \/ \E s \in SessionIds : OnResult(s)
  \/ VoiceButtonEffect
  \/ ControlsChange
  \/ ClearLastCommand

(* A setTimeout callback that is not cleared runs: the cleanup of line 494 *)
(* clears the timer only when lastCommand changed, and the effect then     *)
(* sets a new one for the new lastCommand.                                 *)
DisplayFairness == WF_vars(ClearLastCommand)

SpecDisplayFair == Init /\ [][DisplayNext]_vars /\ DisplayFairness

(***************************************************************************)
(* C33  lastCommand is cleared after the display window whatever the       *)
(* resolution gave.  Whenever lastCommand is set it is eventually          *)
(* undefined, whether processVoiceCommand returned true or false for it    *)
(* or has not run; and the step that clears it changes no other field of   *)
(* the session state, no ref, no recognizer and no timer.                  *)
(***************************************************************************)
C33_LastCommandCleared ==
  /\ [][ClearLastCommand
          => /\ state' = [state EXCEPT !.lastCommand = NoValue]
             /\ UNCHANGED <<persistentVars, oneShotVars>>]_vars
  /\ (state.lastCommand # NoValue) ~> (state.lastCommand = NoValue)

(* Cleared after a resolution that returned false *)
C33_Witness ==
  /\ state.lastCommand = NoValue
  /\ effectDeps.lastCommand = "play"
  /\ text = "play"
  /\ dispatched = "play"
  /\ result = FALSE

(***************************************************************************)
(* C34  Every update is computed from the latest state.  What a restart    *)
(* timer does when it fires is what the state of that moment asks for: it  *)
(* starts a recognizer exactly when isPersistentMode is true then, so that *)
(* the onstart that follows a start never writes isPersistentMode,         *)
(* isListening and error over what an update in between wrote.             *)
(* Violated by the 500 ms timer of onend (lines 198-202): the prev it      *)
(* tests is the snapshot the updater was given when the timer was set.     *)
(***************************************************************************)
C34_LatestState ==
  [][\A t \in timers :
       RestartTimeout(t)
       => /\ WantsRestart(Ctl, t) = state.isPersistentMode
          /\ (t.kind = "end" => t.captured = state.isPersistentMode)]_vars

(***************************************************************************)
(* C35  No restart from a replaced session.  The end event of a            *)
(* recognizer that is not the current one (it was stopped and another one  *)
(* is in persistentRecognitionRef) schedules no restart timer: no timer is *)
(* pending after it that was not pending before.                           *)
(* Violated by onend (lines 194-203): it tests prev.isPersistentMode and   *)
(* that persistentRecognitionRef holds some recognizer, not that it holds  *)
(* the one that ended.                                                     *)
(***************************************************************************)
C35_NoRestartFromReplaced ==
  [][\A s \in SessionIds :
       (OnEnd(s) /\ persistentRecognitionRef # 0 /\ persistentRecognitionRef # s)
       => \A t \in timers' : t \in timers]_vars

(***************************************************************************)
(* C36  Stopped stays stopped.  Where recognizers exist, the ref           *)
(* persistentRecognitionRef is null from a stopPersistentListening to the  *)
(* next start (and before the first start); in every such state            *)
(* isPersistentMode and isListening are false, whatever events of earlier  *)
(* recognizers have arrived since the stop.                                *)
(* Violated by onstart (lines 98-106): it sets both flags without testing  *)
(* that its recognizer is still the referenced one.                        *)
(***************************************************************************)
C36_StoppedStaysStopped ==
  (env = "webSR" /\ persistentRecognitionRef = 0)
    => (~state.isPersistentMode /\ ~state.isListening)

----------------------------------------------------------------------------
(* Persistence of the overrides *)

(* The setItem calls the model keeps in flight *)
MaxWrites == 2

(* JSON.stringify of the mapping and JSON.parse of the stored text: an     *)
(* object of string values comes back with its keys, its values and its    *)
(* key order.                                                              *)
Stringify(cc) == [json |-> cc]
Parse(stored) == stored.json

(* The phrases the model saves *)
StoreTriggers == {"zzz", "PLAY"}

(* saveCustomCommand, lines 54-58, up to its await: the mapping is built   *)
(* from the customCommands the callback captured, handed to                *)
(* setCustomCommands, and its JSON text handed to setItem.                 *)
SaveCall(commandId, trigger) ==
  /\ Len(writes) < MaxWrites
  /\ LET updated == saveCustomCommand(closure, commandId, trigger)
     IN /\ customCommands' = updated
        /\ writes' = Append(writes, Stringify(updated))
  /\ expected' = saveCustomCommand(expected, commandId, trigger)
  /\ last' = "save"
  /\ UNCHANGED <<env, mounted, samplerVars, language, store, closure, loading, state, persistentVars,
                 oneShotVars, videoControls, text, dispatched, calls, result, muteTrail,
                 effectVars>>

(* The provider renders: useCallback hands out a saveCustomCommand that    *)
(* captured the present customCommands (line 58)                           *)
Render ==
  /\ closure # customCommands
  /\ closure' = customCommands
  /\ last' = "render"
  /\ UNCHANGED <<env, mounted, samplerVars, language, store, loading, writes, expected, state,
                 persistentVars, oneShotVars, cmdVars>>

(* The oldest setItem completes (line 57) *)
WriteDone ==
  /\ writes # <<>>
  /\ store' = <<Head(writes)>>
  /\ writes' = Tail(writes)
  /\ last' = "written"
  /\ UNCHANGED <<env, mounted, samplerVars, language, closure, loading, expected, state,
                 persistentVars, oneShotVars, cmdVars>>

(* loadCustomCommands, lines 39-48, resumed by its getItem, which read the *)
(* store when it was issued: what was stored then replaces the mapping in  *)
(* memory                                                                  *)
LoadDone ==
  /\ loading # <<>>
  /\ loading' = <<>>
  /\ customCommands' = IF loading[1] # <<>> THEN Parse(loading[1][1]) ELSE customCommands
  /\ last' = "loaded"
  /\ UNCHANGED <<env, mounted, samplerVars, language, store, closure, writes, expected, state,
                 persistentVars, oneShotVars, videoControls, text, dispatched, calls, result,
                 muteTrail, effectVars>>

(* The app is closed and opened again: the memory starts empty, the mount  *)
(* effect calls loadCustomCommands (lines 50-52), the store is what it was *)
Relaunch ==
  /\ loading = <<>> /\ writes = <<>>
  /\ customCommands # <<>>
  /\ customCommands' = <<>>
  /\ closure' = <<>>
  /\ loading' = <<store>>
  /\ last' = "relaunch"
  /\ UNCHANGED <<env, mounted, samplerVars, language, store, writes, expected, state, persistentVars,
                 oneShotVars, videoControls, text, dispatched, calls, result, muteTrail,
                 effectVars>>

StoreNext ==
  \/ \E commandId \in OverrideIds, trigger \in StoreTriggers : SaveCall(commandId, trigger)
  \/ Render
  \/ WriteDone
  \/ LoadDone
  \/ Relaunch

SpecStore == Init /\ [][StoreNext]_vars

(* A mapping as the set of its entries *)
Entries(cc) == {cc[i] : i \in 1..Len(cc)}

(* Nothing of the persistence is in flight and the provider has rendered *)
StoreQuiet == loading = <<>> /\ writes = <<>> /\ closure = customCommands

(***************************************************************************)
(* C37  Override updates are not lost and memory agrees with the store.    *)
(* Once every load and every save has completed, the customCommands in     *)
(* memory have the entries of the mapping stored under 'customCommands'    *)
(* (none when nothing is stored), and they are the entries the saves made  *)
(* so far define: every saved actionId with the phrase saved last for it.  *)
(* Violated twice: two saves from one closure both start from the same     *)
(* customCommands, and the second drops the entry of the first; and a load *)
(* that completes after a save puts what was stored before over the        *)
(* mapping in memory.                                                      *)
(***************************************************************************)
C37_OverridesKept ==
  StoreQuiet
    => /\ Entries(customCommands) = (IF store = <<>> THEN {} ELSE Entries(Parse(store[1])))
       /\ Entries(customCommands) = Entries(expected)

(* The ids of the speed options offered for customization, lines 702-708 *)
speedOptionIds == {"speed05", "speed10", "speed125", "speed15", "speed20"}

(***************************************************************************)
(* C38  Every actionId that resolution hands to the dispatcher has a case  *)
(* in executeCommand.  Each key of the built-in phrase table is a case     *)
(* label, and after every processVoiceCommand call that dispatched, with   *)
(* overrides saved for a table key ('pause') and for a speed option        *)
(* ('speed20'), the dispatched actionId is a case label.                   *)
(* Violated by 'speed20': the switch has speed2 and, next to speed1,       *)
(* speed10 (lines 563-575), but no speed20.                                *)
(***************************************************************************)
C38_ResolvedIsHandled ==
  /\ \A i \in 1..Len(loweredCommands) : loweredCommands[i].id \in HandledIds
  /\ OverrideIds \subseteq {loweredCommands[i].id : i \in 1..Len(loweredCommands)}
                             \cup speedOptionIds
  /\ (text # NoValue /\ dispatched # NoValue) => dispatched \in HandledIds

(***************************************************************************)
(* C39  An override saved with an empty phrase matches no transcript:      *)
(* every processVoiceCommand call resolves as it would with the            *)
(* empty-phrase overrides left out, so such an override cannot capture a   *)
(* command and shadow the other overrides and the built-in phrase table.   *)
(* Violated: command.includes('') is true for every command (line 604) and *)
(* saveCustomCommand stores the phrase unchecked (lines 54-58).            *)
(***************************************************************************)
C39_EmptyPhraseInert ==
  [][\A txt \in ResolveTexts :
       ProcessVoiceCommand(txt) =>
         LET phrased == SelectSeq(customCommands, LAMBDA e : e[2] # "")
         IN  dispatched' = processVoiceCommand(txt, phrased, videoControls).id]_vars

(***************************************************************************)
(* The audio-level sampler, useAudioLevel.  startDetection is a            *)
(* useCallback over [isDetecting]: its guard, and the isDetecting that     *)
(* updateAudioLevel and simulateAudioLevel read, are the value captured at *)
(* the last render ('detecting').  A call that passes the guard captured   *)
(* FALSE, so updateAudioLevel returns at its first test without sampling   *)
(* and no function of that call requests an animation frame.               *)
(***************************************************************************)
MaxStreams == 2     \* calls of getUserMedia by the sampler

SimLevels == {1, 10}        \* min(1, base + burst), base in [0.1, 0.4), in tenths
FallbackLevels == {2, 5}    \* 0.2 + random * 0.4, in tenths

(* startDetection while the captured isDetecting is true: line 412 *)
StartDetectionActive ==
  /\ detecting
  /\ last' = "startDetection.active"
  /\ UNCHANGED <<env, mounted, language, storeVars, state, persistentVars, oneShotVars,
                 cmdVars, samplerVars>>

(* startDetection up to its await (web) or to its end (native) *)
StartDetection ==
  /\ ~detecting
  /\ isDetecting' = TRUE
  /\ IF env = "native"
     THEN /\ audioLevel' \in SimLevels
          /\ UNCHANGED mediaWait
     ELSE /\ made + mediaWait < MaxStreams
          /\ mediaWait' = mediaWait + 1
          /\ UNCHANGED audioLevel
  /\ last' = "startDetection"
  /\ UNCHANGED <<env, mounted, language, storeVars, state, persistentVars, oneShotVars,
                 cmdVars, animationRef, mediaStreamRef, audioContextRef, detecting,
                 tracks, contexts, made>>

(* getUserMedia resolves: the rest of the try block, lines 427-467 *)
MediaGranted ==
  /\ mediaWait > 0
  /\ mediaWait' = mediaWait - 1
  /\ made' = made + 1
  /\ mediaStreamRef' = made + 1
  /\ tracks' = tracks \cup {made + 1}
  /\ audioContextRef' = made + 1
  /\ contexts' = contexts \cup {made + 1}
  /\ last' = "granted"
  /\ UNCHANGED <<env, mounted, language, storeVars, state, persistentVars, oneShotVars,
                 cmdVars, isDetecting, audioLevel, animationRef, detecting>>

(* getUserMedia rejects: the catch block, lines 487-503 *)
MediaDenied ==
  /\ mediaWait > 0
  /\ mediaWait' = mediaWait - 1
  /\ isDetecting' = FALSE
  /\ audioLevel' \in FallbackLevels
  /\ last' = "denied"
  /\ UNCHANGED <<env, mounted, language, storeVars, state, persistentVars, oneShotVars,
                 cmdVars, animationRef, mediaStreamRef, audioContextRef, detecting,
                 tracks, contexts, made>>

(* stopDetection, lines 508-531 *)
StopDetection ==
  /\ isDetecting' = FALSE
  /\ audioLevel' = 0
  /\ animationRef' = 0
  /\ contexts' = contexts \ {audioContextRef}
  /\ audioContextRef' = 0
  /\ tracks' = tracks \ {mediaStreamRef}
  /\ mediaStreamRef' = 0
  /\ last' = "stopDetection"
  /\ UNCHANGED <<env, mounted, language, storeVars, state, persistentVars, oneShotVars,
                 cmdVars, detecting, mediaWait, made>>

(* A render recreates startDetection over the isDetecting of that render *)
SamplerRender ==
  /\ detecting # isDetecting
  /\ detecting' = isDetecting
  /\ last' = "sampler.render"
  /\ UNCHANGED <<env, mounted, language, storeVars, state, persistentVars, oneShotVars,
                 cmdVars, isDetecting, audioLevel, animationRef, mediaStreamRef,
                 audioContextRef, mediaWait, tracks, contexts, made>>

SamplerNext ==
  \/ StartDetectionActive
  \/ StartDetection
  \/ MediaGranted
  \/ MediaDenied
  \/ StopDetection
  \/ SamplerRender

SpecSampler == Init /\ [][SamplerNext]_vars

(* The sampler is off and holds nothing *)
SamplerOff ==
  /\ ~isDetecting
  /\ audioLevel = 0
  /\ mediaStreamRef = 0 /\ tracks = {}
  /\ audioContextRef = 0 /\ contexts = {}
  /\ animationRef = 0

(***************************************************************************)
(* C40  After stopDetection the sampler is off and holds nothing           *)
(* (isDetecting false, audioLevel 0, no media stream, no audio context, no *)
(* animation frame), and it stays so until startDetection is called again, *)
(* also when stopDetection came while a startDetection was awaiting the    *)
(* microphone; and a startDetection call from a render that saw           *)
(* isDetecting true asks for no stream.                                    *)
(* Violated: the awaited getUserMedia of a stopped call resolves into      *)
(* lines 427-431 and the stream and the context are kept, or rejects into  *)
(* the catch block and audioLevel is set.                                  *)
(***************************************************************************)
C40_SamplerStops ==
  /\ [][StopDetection => SamplerOff']_vars
  /\ [][(SamplerOff /\ ~StartDetection) => SamplerOff']_vars
  /\ [][(isDetecting /\ detecting /\ (StartDetection \/ StartDetectionActive))
          => mediaWait' = mediaWait]_vars

====
